---- MODULE Spec2Model ----
(***************************************************************************)
(* Model of rx::IndexDataManager (libANGLE/renderer/d3d), the translation  *)
(* of GL index data into the index formats a D3D renderer accepts.         *)
(*                                                                         *)
(* Memory is modelled at byte granularity: a buffer's content, a caller's  *)
(* index array and a converted region are sequences of bytes; elements     *)
(* are read and written little-endian, as on the platforms the renderer    *)
(* runs on.                                                                *)
(***************************************************************************)
EXTENDS Integers, Sequences, FiniteSets, TLC

VARIABLES
    mRendererClass,         \* IndexDataManager::mRendererClass
    mStreamingBufferShort,  \* IndexDataManager::mStreamingBufferShort (NoBuffer or a storage object)
    mStreamingBufferInt,    \* IndexDataManager::mStreamingBufferInt
    buffers,                \* the gl::Buffer / BufferD3D objects the draws may name
    translated,             \* the TranslatedIndexData of the last prepareIndexData call
    call                    \* what the last prepareIndexData call did and returned

vars == <<mRendererClass, mStreamingBufferShort, mStreamingBufferInt, buffers,
          translated, call>>

----------------------------------------------------------------------------
(* Bounds of the model. *)

\* Largest buffer, in bytes.
MaxBytes == 4
\* Largest element count of a draw whose data is enumerated.
MaxCount == 1
\* Largest storage the backend allocates, in bytes; a larger reserve fails.
MaxStorageBytes == 4

NULL == "NULL"

\* A null pointer to a storage object.
NoBuffer == [null |-> TRUE]

----------------------------------------------------------------------------
(* GL types. *)

GL_NONE == "GL_NONE"
GL_UNSIGNED_BYTE == "GL_UNSIGNED_BYTE"
GL_UNSIGNED_SHORT == "GL_UNSIGNED_SHORT"
GL_UNSIGNED_INT == "GL_UNSIGNED_INT"

RENDERER_D3D9 == "RENDERER_D3D9"
RENDERER_D3D11 == "RENDERER_D3D11"

IndexTypes == {GL_UNSIGNED_BYTE, GL_UNSIGNED_SHORT, GL_UNSIGNED_INT}
RendererClasses == {RENDERER_D3D9, RENDERER_D3D11}

\* The width of unsigned int in the model, in bits.  TLC's integers
\* end at 2^31 - 1, so the word is narrower than the program's 32 bits; size_t
\* and GLsizei scale with it, the index types keep their widths.
UIntBits == 16

\* std::numeric_limits<unsigned int>::max()
UINT_MAX == (2 ^ UIntBits) - 1

\* unsigned int arithmetic
U32(x) == x % (UINT_MAX + 1)

\* gl::GetTypeInfo(type).bytesShift
BytesShift(type) ==
    CASE type = GL_UNSIGNED_BYTE -> 0
      [] type = GL_UNSIGNED_SHORT -> 1
      [] type = GL_UNSIGNED_INT -> 2

\* gl::GetTypeInfo(type).bytes
TypeBytes(type) == 2 ^ BytesShift(type)

\* x << s and x >> s on unsigned int
Shl(x, s) == U32(x * (2 ^ s))
Shr(x, s) == x \div (2 ^ s)

----------------------------------------------------------------------------
(* Memory and index values.  An index value is the sequence of its bytes,  *)
(* least significant first, as many as its type has.                       *)

\* static_cast<T>(v) to an unsigned type of n bytes: the low bytes are kept,
\* the missing high bytes are zero.
Cast(v, n) == [k \in 1..n |-> IF k <= Len(v) THEN v[k] ELSE 0]

\* static_cast<DestT>(v)
CastTo(v, type) == Cast(v, TypeBytes(type))

\* a == b on unsigned values of any widths
SameValue(a, b) == Cast(a, 8) = Cast(b, 8)

\* gl::GetPrimitiveRestartIndex(type), a GLuint: the largest value of the type
GetPrimitiveRestartIndex(type) == [k \in 1..4 |-> IF k <= TypeBytes(type) THEN 255 ELSE 0]

\* What a read outside the memory handed in yields: not a byte.
OutOfStorage == 0 - 1

\* Byte j (1-based) of mem.
Byte(mem, j) == IF j <= Len(mem) THEN mem[j] ELSE OutOfStorage

\* Element i (1-based) of the array of n-byte elements at the start of mem.
Elem(mem, i, n) == [k \in 1..n |-> Byte(mem, (i - 1) * n + k)]

\* mem from byte position pos on (pointer arithmetic: data + pos).
From(mem, pos) == SubSeq(mem, pos + 1, Len(mem))

----------------------------------------------------------------------------
(* The converter. *)

\* ConvertIndexArray without the remap of the restart index: every element
\* is cast.
ConvertIndexArrayCast(input, sourceType, output, destinationType, count, usePrimitiveRestartFixedIndex) ==
    LET n == TypeBytes(sourceType)
        d == TypeBytes(destinationType)
        out == [i \in 1..count |-> CastTo(Elem(input, i, n), destinationType)]
    IN [j \in 1..(count * d) |-> out[((j - 1) \div d) + 1][((j - 1) % d) + 1]]

\* ConvertIndexArray<InputT, DestT>: the bytes written to output.
ConvertIndexArray(input, sourceType, output, destinationType, count, usePrimitiveRestartFixedIndex) ==
    LET n == TypeBytes(sourceType)
        d == TypeBytes(destinationType)
        srcRestartIndex == CastTo(GetPrimitiveRestartIndex(sourceType), sourceType)
        destRestartIndex == CastTo(GetPrimitiveRestartIndex(destinationType), destinationType)
        out == [i \in 1..count |->
                  IF usePrimitiveRestartFixedIndex
                  THEN (IF Elem(input, i, n) = srcRestartIndex THEN destRestartIndex
                        ELSE CastTo(Elem(input, i, n), destinationType))
                  ELSE CastTo(Elem(input, i, n), destinationType)]
    IN [j \in 1..(count * d) |-> out[((j - 1) \div d) + 1][((j - 1) % d) + 1]]

\* ConvertIndices with a memcpy of count bytes rather than count elements.
ConvertIndicesCountBytes(sourceType, destinationType, input, count, output, usePrimitiveRestartFixedIndex) ==
    IF sourceType = destinationType
    THEN [out |-> [j \in 1..count |-> Byte(input, j)], ok |-> TRUE]
    ELSE [out |-> ConvertIndexArray(input, sourceType, output, destinationType, count,
                                    usePrimitiveRestartFixedIndex),
          ok |-> TRUE]

\* ConvertIndices: [out |-> the bytes written to output, ok |-> no ASSERT or
\* UNREACHABLE was hit].  A width pair the function has no branch for writes
\* nothing.
ConvertIndices(sourceType, destinationType, input, count, output, usePrimitiveRestartFixedIndex) ==
    IF sourceType = destinationType
    THEN [out |-> [j \in 1..(count * TypeBytes(destinationType)) |-> Byte(input, j)],
          ok |-> TRUE]
    ELSE IF sourceType = GL_UNSIGNED_BYTE
    THEN [out |-> ConvertIndexArray(input, sourceType, output, GL_UNSIGNED_SHORT, count,
                                    usePrimitiveRestartFixedIndex),
          ok |-> destinationType = GL_UNSIGNED_SHORT]
    ELSE IF sourceType = GL_UNSIGNED_SHORT
    THEN [out |-> ConvertIndexArray(input, sourceType, output, GL_UNSIGNED_INT, count,
                                    usePrimitiveRestartFixedIndex),
          ok |-> destinationType = GL_UNSIGNED_INT]
    ELSE [out |-> output, ok |-> FALSE]

----------------------------------------------------------------------------
(* The backend storage objects (IndexBufferInterface): the two streaming   *)
(* buffers of the manager and the static index buffer of a BufferD3D.      *)
(* A storage object is [static, bufferSize, indexType, writePosition,      *)
(* serial, data]; data is kept for a static buffer only, a streaming       *)
(* region is dead once the draw it was written for has been issued.        *)
(* A serial is [kind, of, alloc]: the object it belongs to and the number  *)
(* of storages that object has allocated, so that the serials of two       *)
(* objects never coincide and an object's serial changes exactly when its  *)
(* backing storage does.                                                   *)

\* Model-sized stand-in for the initial size of a streaming buffer, in bytes.
INITIAL_INDEX_BUFFER_SIZE == 2

NoError == "NoError"

NoSerial == [kind |-> "none", of |-> "none", alloc |-> 0]

\* A storage object just constructed, of the kind and owner given.
NewIndexBuffer(kind, of) ==
    [static |-> (kind = "static"), bufferSize |-> 0, indexType |-> GL_NONE,
     writePosition |-> 0, serial |-> [kind |-> kind, of |-> of, alloc |-> 0],
     data |-> <<>>]

Max(a, b) == IF a >= b THEN a ELSE b

\* IndexBufferInterface::reserveBufferSpace(size, indexType), which yields
\* [ib, error].  A streaming buffer grows to max(size, 2 * bufferSize) when
\* size exceeds it and restarts at position 0 when the rest is too small; a
\* static buffer is sized once.
ReserveBufferSpace(ib, size, indexType, fails) ==
    LET failed == [ib |-> ib, error |-> "ReserveFailed"]
        same == [ib |-> ib, error |-> NoError]
        Alloc(n) == [ib |-> [ib EXCEPT !.bufferSize = n, !.indexType = indexType,
                                       !.writePosition = 0,
                                       !.serial = [@ EXCEPT !.alloc = @ + 1],
                                       !.data = <<>>],
                     error |-> NoError]
    IN IF fails THEN failed
       ELSE IF ib.static
       THEN IF ib.bufferSize = 0
            THEN (IF size > MaxStorageBytes THEN failed
                  ELSE IF size = 0
                  THEN [same EXCEPT !.ib = [ib EXCEPT !.indexType = indexType]]
                  ELSE Alloc(size))
            ELSE IF ib.bufferSize >= size /\ ib.indexType = indexType THEN same
            ELSE [failed EXCEPT !.error = "InternalError"]
       ELSE IF size > ib.bufferSize
            THEN (IF Max(size, 2 * ib.bufferSize) > MaxStorageBytes THEN failed
                  ELSE Alloc(Max(size, 2 * ib.bufferSize)))
            ELSE IF ib.writePosition + size > ib.bufferSize
            THEN [same EXCEPT !.ib = [ib EXCEPT !.writePosition = 0]]
            ELSE same

\* IndexBufferInterface::mapBuffer(size, &output, &offset)
MapBuffer(ib, size, fails) ==
    IF fails \/ ib.writePosition + size > ib.bufferSize
    THEN [ib |-> ib, error |-> "MapFailed", offset |-> 0]
    ELSE [ib |-> [ib EXCEPT !.writePosition = ib.writePosition + size],
          error |-> NoError, offset |-> ib.writePosition]

\* The name under which the operations on a storage object are logged.
KindOf(ib) == IF ib.static THEN "static" ELSE "streaming"

----------------------------------------------------------------------------
(* StreamInIndexBuffer *)

CapacityExceededAlways(count, dstType) == FALSE

\* count > (std::numeric_limits<unsigned int>::max() >> dstTypeInfo.bytesShift)
CapacityExceeded(count, dstType) == count > Shr(UINT_MAX, BytesShift(dstType))

\* StreamInIndexBuffer, from ConvertIndices on: the indices are written to
\* the mapped region and the buffer is unmapped.  m is what mapBuffer
\* yielded, c what ConvertIndices wrote.
StreamInIndexBufferConverted(c, m, k, bufferSizeRequired, count, srcType, dstType, fault) ==
    [buffer |-> IF m.ib.static THEN [m.ib EXCEPT !.data = c.out] ELSE m.ib,
     error |-> IF fault = "unmap" THEN "UnmapFailed" ELSE NoError,
     offset |-> m.offset,
     out |-> c.out,
     ops |-> << <<k, "reserve", bufferSizeRequired>>, <<k, "map", bufferSizeRequired>>,
                <<k, "convert", <<srcType, dstType, count>> >>, <<k, "unmap", 0>> >>,
     ok |-> c.ok]

\* StreamInIndexBuffer, from mapBuffer on, with the error of mapBuffer left
\* unchecked.
StreamInIndexBufferMappedUnchecked(m, k, bufferSizeRequired, data, count, srcType, dstType, usePrimitiveRestartFixedIndex, fault) ==
    StreamInIndexBufferConverted(
        ConvertIndices(srcType, dstType, data, count, <<>>,
                       usePrimitiveRestartFixedIndex),
        m, k, bufferSizeRequired, count, srcType, dstType, fault)

\* StreamInIndexBuffer, from mapBuffer on.  m is what mapBuffer yielded.
StreamInIndexBufferMapped(m, k, bufferSizeRequired, data, count, srcType, dstType, usePrimitiveRestartFixedIndex, fault) ==
    IF m.error # NoError
    THEN [buffer |-> m.ib, error |-> m.error, offset |-> 0, out |-> <<>>,
          ops |-> << <<k, "reserve", bufferSizeRequired>>,
                     <<k, "map", bufferSizeRequired>> >>,
          ok |-> TRUE]
    ELSE StreamInIndexBufferConverted(
             ConvertIndices(srcType, dstType, data, count, <<>>,
                            usePrimitiveRestartFixedIndex),
             m, k, bufferSizeRequired, count, srcType, dstType, fault)

\* StreamInIndexBuffer, from reserveBufferSpace on.  r is what
\* reserveBufferSpace yielded.
StreamInIndexBufferReserved(r, k, bufferSizeRequired, data, count, srcType, dstType, usePrimitiveRestartFixedIndex, fault) ==
    IF r.error # NoError
    THEN [buffer |-> r.ib, error |-> r.error, offset |-> 0, out |-> <<>>,
          ops |-> << <<k, "reserve", bufferSizeRequired>> >>, ok |-> TRUE]
    ELSE StreamInIndexBufferMapped(MapBuffer(r.ib, bufferSizeRequired, fault = "map"),
                                   k, bufferSizeRequired, data, count, srcType, dstType,
                                   usePrimitiveRestartFixedIndex, fault)

\* StreamInIndexBuffer(buffer, data, count, srcType, dstType,
\* usePrimitiveRestartFixedIndex, offset): [buffer, error, offset, out, ops,
\* ok]; out are the bytes written to the mapped region, ops the
\* operations made on the storage object, in order.
StreamInIndexBuffer(buffer, data, count, srcType, dstType, usePrimitiveRestartFixedIndex, fault) ==
    IF CapacityExceeded(count, dstType)
    THEN [buffer |-> buffer, error |-> "OutOfMemory", offset |-> 0, out |-> <<>>,
          ops |-> <<>>, ok |-> TRUE]
    ELSE StreamInIndexBufferReserved(
             ReserveBufferSpace(buffer, Shl(count, BytesShift(dstType)), dstType,
                                fault = "reserve"),
             KindOf(buffer), Shl(count, BytesShift(dstType)), data, count, srcType,
             dstType, usePrimitiveRestartFixedIndex, fault)

----------------------------------------------------------------------------
(* IndexDataManager.  Its fields travel through the helper operators as a  *)
(* record m == [short, int].                                               *)

Manager == [short |-> mStreamingBufferShort, int |-> mStreamingBufferInt]

\* The fields of the manager after deinitialize: both streaming buffers reset.
Deinitialized(m) == [short |-> NoBuffer, int |-> NoBuffer]

\* One streaming buffer selected for every destination type.
StreamingSlotShort(destinationIndexType) == "short"

\* The streaming buffer getStreamingIndexBuffer selects for a destination type.
StreamingSlot(destinationIndexType) ==
    IF destinationIndexType = GL_UNSIGNED_INT THEN "int" ELSE "short"

\* getStreamingIndexBuffer, keeping the new buffer whatever its first
\* reserve returned.
getStreamingIndexBufferInstalling(destinationIndexType, m, fault) ==
    LET slot == StreamingSlot(destinationIndexType)
        ok == destinationIndexType \in {GL_UNSIGNED_SHORT, GL_UNSIGNED_INT}
    IN IF m[slot] # NoBuffer
       THEN [m |-> m, buffer |-> m[slot], error |-> NoError, ops |-> <<>>, ok |-> ok]
       ELSE LET r == ReserveBufferSpace(NewIndexBuffer("streaming", destinationIndexType),
                                        INITIAL_INDEX_BUFFER_SIZE, destinationIndexType,
                                        fault = "create")
            IN [m |-> [m EXCEPT ![slot] = r.ib],
                buffer |-> IF r.error # NoError THEN NoBuffer ELSE r.ib,
                error |-> r.error,
                ops |-> << <<"streaming", "new", 0>>,
                           <<"streaming", "reserve", INITIAL_INDEX_BUFFER_SIZE>> >>,
                ok |-> ok]

\* IndexDataManager::getStreamingIndexBuffer: [m, buffer, error, ops, ok]
getStreamingIndexBuffer(destinationIndexType, m, fault) ==
    LET slot == StreamingSlot(destinationIndexType)
        ok == destinationIndexType \in {GL_UNSIGNED_SHORT, GL_UNSIGNED_INT}
    IN IF m[slot] # NoBuffer
       THEN [m |-> m, buffer |-> m[slot], error |-> NoError, ops |-> <<>>, ok |-> ok]
       ELSE LET r == ReserveBufferSpace(NewIndexBuffer("streaming", destinationIndexType),
                                        INITIAL_INDEX_BUFFER_SIZE, destinationIndexType,
                                        fault = "create")
                ops == << <<"streaming", "new", 0>>,
                          <<"streaming", "reserve", INITIAL_INDEX_BUFFER_SIZE>> >>
            IN IF r.error # NoError
               THEN [m |-> m, buffer |-> NoBuffer, error |-> r.error, ops |-> ops, ok |-> ok]
               ELSE [m |-> [m EXCEPT ![slot] = r.ib],
                     buffer |-> r.ib, error |-> NoError, ops |-> ops, ok |-> ok]

\* The name a descriptor holds for the index buffer of a storage object.
StreamingIndexBuffer(dstType) == [kind |-> "streaming", of |-> dstType]
StaticIndexBuffer(b) == [kind |-> "static", of |-> b]
NoIndexBuffer == [kind |-> "nullptr", of |-> "nullptr"]

\* streamIndexData, after StreamInIndexBuffer, with the byte offset of the
\* region taken for its startIndex.
StreamIndexDataStreamedUnshifted(s, g, dstType, tr) ==
    [m |-> [g.m EXCEPT ![StreamingSlot(dstType)] = s.buffer],
     translated |-> IF s.error # NoError THEN tr
                    ELSE [tr EXCEPT !.indexBuffer = StreamingIndexBuffer(dstType),
                                    !.serial = s.buffer.serial,
                                    !.startIndex = s.offset,
                                    !.startOffset = s.offset],
     error |-> s.error,
     ops |-> g.ops \o s.ops,
     out |-> IF s.error # NoError THEN <<>> ELSE s.out,
     ok |-> g.ok /\ s.ok]

\* streamIndexData, after StreamInIndexBuffer.  g is what
\* getStreamingIndexBuffer yielded, s what StreamInIndexBuffer did.
StreamIndexDataStreamed(s, g, dstType, tr) ==
    [m |-> [g.m EXCEPT ![StreamingSlot(dstType)] = s.buffer],
     translated |-> IF s.error # NoError THEN tr
                    ELSE [tr EXCEPT !.indexBuffer = StreamingIndexBuffer(dstType),
                                    !.serial = s.buffer.serial,
                                    !.startIndex = Shr(s.offset, BytesShift(dstType)),
                                    !.startOffset = s.offset],
     error |-> s.error,
     ops |-> g.ops \o s.ops,
     out |-> IF s.error # NoError THEN <<>> ELSE s.out,
     ok |-> g.ok /\ s.ok]

\* streamIndexData, after getStreamingIndexBuffer.
StreamIndexDataInto(g, data, count, srcType, dstType, usePrimitiveRestartFixedIndex, tr, fault) ==
    IF g.error # NoError
    THEN [m |-> g.m, translated |-> tr, error |-> g.error, ops |-> g.ops,
          out |-> <<>>, ok |-> g.ok]
    ELSE StreamIndexDataStreamed(
             StreamInIndexBuffer(g.buffer, data, count, srcType, dstType,
                                 usePrimitiveRestartFixedIndex, fault),
             g, dstType, tr)

\* IndexDataManager::streamIndexData: [m, translated, error, ops, out, ok]
streamIndexData(data, count, srcType, dstType, usePrimitiveRestartFixedIndex, tr, m, fault) ==
    StreamIndexDataInto(getStreamingIndexBuffer(dstType, m, fault), data, count, srcType,
                        dstType, usePrimitiveRestartFixedIndex, tr, fault)

----------------------------------------------------------------------------
(* The format policy of prepareIndexData. *)

UsePrimitiveRestartWorkaroundAnyType(primitiveRestartFixedIndexEnabled, type, rendererClass) ==
    ~primitiveRestartFixedIndexEnabled /\ rendererClass = RENDERER_D3D11

\* IndexDataManager::UsePrimitiveRestartWorkaround
UsePrimitiveRestartWorkaround(primitiveRestartFixedIndexEnabled, type, rendererClass) ==
    ~primitiveRestartFixedIndexEnabled /\ type = GL_UNSIGNED_SHORT
        /\ rendererClass = RENDERER_D3D11

\* hasPrimitiveRestartIndex from the end of the range alone.
HasPrimitiveRestartIndexAtEnd(indexRange, count, srcType) ==
    SameValue(indexRange.end, GetPrimitiveRestartIndex(srcType))

\* hasPrimitiveRestartIndex of prepareIndexData
HasPrimitiveRestartIndex(indexRange, count, srcType) ==
    \/ indexRange.vertexIndexCount < count
    \/ SameValue(indexRange.end, GetPrimitiveRestartIndex(srcType))

\* primitiveRestartWorkaround of prepareIndexData
PrimitiveRestartWorkaround(primitiveRestartFixedIndexEnabled, srcType, rendererClass, hasPrimitiveRestartIndex) ==
    UsePrimitiveRestartWorkaround(primitiveRestartFixedIndexEnabled, srcType, rendererClass)
        /\ hasPrimitiveRestartIndex

\* dstType without the promotion of 8-bit indices: the source type unless
\* the workaround widens it.
DstTypeOfSource(srcType, primitiveRestartWorkaround) ==
    IF primitiveRestartWorkaround THEN GL_UNSIGNED_INT ELSE srcType

\* dstType of prepareIndexData
DstType(srcType, primitiveRestartWorkaround) ==
    IF srcType = GL_UNSIGNED_INT \/ primitiveRestartWorkaround THEN GL_UNSIGNED_INT
    ELSE GL_UNSIGNED_SHORT

\* The ASSERT on GL_UNSIGNED_INT indices at the head of prepareIndexData.
NoMaxUIntIndices(rendererClass, primitiveRestartFixedIndexEnabled, hasPrimitiveRestartIndex, indexRange, srcType) ==
    ~(rendererClass = RENDERER_D3D11 /\ ~primitiveRestartFixedIndexEnabled
        /\ (hasPrimitiveRestartIndex /\ indexRange.vertexIndexCount # 0)
        /\ srcType = GL_UNSIGNED_INT)

\* IndexDataManager::IsStreamingIndexData(context, srcType, rendererClass):
\* isPrimitiveRestartEnabled and glBuffer are what it reads from the state
\* of the context, bufs the buffers as they are.
IsStreamingIndexData(srcType, rendererClass, isPrimitiveRestartEnabled, glBuffer, bufs) ==
    IF glBuffer = NULL
    THEN TRUE
    ELSE IF bufs[glBuffer].supportsDirectBinding
            /\ DstType(srcType, UsePrimitiveRestartWorkaround(isPrimitiveRestartEnabled,
                                                              srcType, rendererClass))
                 = srcType
    THEN FALSE
    ELSE IF bufs[glBuffer].staticIndexBuffer = NoBuffer
    THEN TRUE
    ELSE \/ bufs[glBuffer].staticIndexBuffer.bufferSize = 0
         \/ bufs[glBuffer].staticIndexBuffer.indexType
              # DstType(srcType, UsePrimitiveRestartWorkaround(isPrimitiveRestartEnabled,
                                                              srcType, rendererClass))

----------------------------------------------------------------------------
(* IndexDataManager::prepareIndexData *)

\* The usePrimitiveRestartFixedIndex argument prepareIndexData hands to
\* streamIndexData and StreamInIndexBuffer.
RemapArgumentWorkaround(primitiveRestartFixedIndexEnabled, primitiveRestartWorkaround) ==
    primitiveRestartWorkaround

RemapArgument(primitiveRestartFixedIndexEnabled, primitiveRestartWorkaround) ==
    primitiveRestartFixedIndexEnabled

\* offsetAligned
OffsetAligned(offset, srcType) == offset % TypeBytes(srcType) = 0

UseDirectlyUnaligned(offsetAligned, supportsDirectBinding, dstType, srcType) ==
    supportsDirectBinding /\ dstType = srcType

\* Case 2a: the buffer can be used directly
UseDirectly(offsetAligned, supportsDirectBinding, dstType, srcType) ==
    offsetAligned /\ supportsDirectBinding /\ dstType = srcType

StaticBufferInitializedIfPresent(staticBuffer) == staticBuffer # NoBuffer

StaticBufferInitializedNever(staticBuffer) == FALSE

\* staticBufferInitialized
StaticBufferInitialized(staticBuffer) ==
    staticBuffer # NoBuffer /\ staticBuffer.bufferSize # 0

StaticBufferUsableAnyType(staticBuffer, offsetAligned, dstType) ==
    staticBuffer # NoBuffer /\ offsetAligned

StaticBufferUsableUnaligned(staticBuffer, offsetAligned, dstType) ==
    staticBuffer # NoBuffer /\ staticBuffer.indexType = dstType

\* staticBufferUsable
StaticBufferUsable(staticBuffer, offsetAligned, dstType) ==
    staticBuffer # NoBuffer /\ offsetAligned /\ staticBuffer.indexType = dstType

FallBackToStreamingIfEmpty(staticBuffer, offsetAligned) ==
    staticBuffer = NoBuffer \/ staticBuffer.bufferSize = 0 \/ ~offsetAligned

\* The condition under which Case 2b streams: staticBuffer == nullptr || !offsetAligned
FallBackToStreaming(staticBuffer, offsetAligned) ==
    staticBuffer = NoBuffer \/ ~offsetAligned

CachedStartOffsetUnscaled(offset, srcType, dstType) == offset

\* translated->startOffset of a draw served from the static index buffer
CachedStartOffset(offset, srcType, dstType) ==
    Shl(Shr(offset, BytesShift(srcType)), BytesShift(dstType))

\* convertCount taken as the size of the buffer in bytes.
ConvertCountInBytes(size, srcType) == U32(size)

\* convertCount: the elements converted into an empty static buffer
ConvertCount(size, srcType) == Shr(U32(size), BytesShift(srcType))

\* The draw's count as the argument of promoteStaticUsage.
PromotedDataSizeInElements(count, srcType) == count

\* count << srcTypeInfo.bytesShift, the argument of promoteStaticUsage
PromotedDataSize(count, srcType) == Shl(count, BytesShift(srcType))

\* BufferD3D::invalidateStaticData: the static index buffer is discarded.
InvalidateStaticData(buf) == [buf EXCEPT !.staticIndexBuffer = NoBuffer]

\* BufferD3D::promoteStaticUsage: the buffer takes note of the use.  Whether
\* and when that makes it create its static index buffer is the buffer's own
\* heuristic (InitializeStaticData below).
PromoteStaticUsage(buf, dataSize) == buf

NoIndexRange == [vertexIndexCount |-> 0, end |-> <<0>>]

\* A TranslatedIndexData as the caller hands it in: indexRange set, the rest unset.
NewTranslated(indexRange) ==
    [indexRange |-> indexRange, indexType |-> GL_NONE, storage |-> NULL,
     indexBuffer |-> NoIndexBuffer, serial |-> NoSerial, startIndex |-> 0, startOffset |-> 0,
     srcIndexData |-> [srcBuffer |-> NULL, srcIndices |-> <<>>,
                       srcIndexType |-> GL_NONE, srcCount |-> 0]]

\* What is kept of a call: its result (error), the path it took, the
\* operations it made on its collaborators (ops), the bytes its descriptor
\* refers to (data), whether every ASSERT held (ok), the restart flag it was
\* given, the static index buffer of its buffer as it found it
\* (staticBefore), for a draw issued again, the serial the first draw
\* was given (serialBefore), and the operation of a collaborator that was
\* to fail in it (fault).
NoCall == [kind |-> "none", error |-> NoError, path |-> "None", ops |-> <<>>,
           data |-> <<>>, primitiveRestartFixedIndexEnabled |-> FALSE, ok |-> TRUE,
           staticBefore |-> NoBuffer, again |-> FALSE, serialBefore |-> NoSerial,
           fault |-> "none"]

\* The bytes of count elements of a type that mem holds from position pos.
Region(mem, pos, count, type) ==
    [j \in 1..(count * TypeBytes(type)) |-> Byte(mem, pos + j)]

\* What prepareIndexData yields: the manager, the buffers, the descriptor
\* and what is kept of the call.
Result(m, bufs, tr, call0, error, path, ops, data, ok) ==
    [m |-> m, bufs |-> bufs, translated |-> tr,
     call |-> [call0 EXCEPT !.error = error, !.path = path, !.ops = ops,
                            !.data = IF error = NoError THEN data ELSE <<>>,
                            !.ok = ok]]

\* Case 1 ending as the streaming fallback of Case 2b does, with a promotion
\* of static usage.
StreamedFromPointerPromoting(s, bufs, call0) ==
    Result(s.m, bufs, s.translated, call0, s.error, "Stream",
           Append(s.ops, <<"buffer", "promoteStaticUsage", 0>>), s.out, s.ok)

\* Case 1, after streamIndexData.
StreamedFromPointer(s, bufs, call0) ==
    Result(s.m, bufs, s.translated, call0, s.error, "Stream", s.ops, s.out, s.ok)

\* Case 2b, streaming, with the static usage promoted whether or not the
\* indices were streamed.
StreamedFromBufferPromoting(s, bufs, glBuffer, dataSize, ops, call0) ==
    Result(s.m,
           [bufs EXCEPT ![glBuffer] = PromoteStaticUsage(bufs[glBuffer], dataSize)],
           s.translated, call0, s.error, "Stream",
           (ops \o s.ops) \o << <<"buffer", "promoteStaticUsage", dataSize>> >>,
           s.out, s.ok)

\* Case 2b, streaming, after streamIndexData: the static usage of the buffer
\* is promoted when the indices were streamed.
StreamedFromBuffer(s, bufs, glBuffer, dataSize, ops, call0) ==
    IF s.error # NoError
    THEN Result(s.m, bufs, s.translated, call0, s.error, "Stream", ops \o s.ops, <<>>, s.ok)
    ELSE Result(s.m,
                [bufs EXCEPT ![glBuffer] = PromoteStaticUsage(bufs[glBuffer], dataSize)],
                s.translated, call0, NoError, "Stream",
                (ops \o s.ops) \o << <<"buffer", "promoteStaticUsage", dataSize>> >>,
                s.out, s.ok)

\* Case 2b with one static index buffer for all buffers: what was filled
\* becomes the static index buffer of every buffer.
FilledStaticBufferShared(s, m, bufs, glBuffer, tr0, call0, ops, startIndex, startOffset, count, dstType, offsetAligned) ==
    Result(m, [b \in DOMAIN bufs |-> [bufs[b] EXCEPT !.staticIndexBuffer = s.buffer]],
           IF s.error # NoError THEN tr0
           ELSE [tr0 EXCEPT !.indexBuffer = StaticIndexBuffer(glBuffer),
                            !.serial = s.buffer.serial,
                            !.startIndex = startIndex,
                            !.startOffset = startOffset],
           call0, s.error, "CachedUse", ops \o s.ops,
           Region(s.buffer.data, startOffset, count, dstType),
           s.ok /\ (s.error # NoError \/ (offsetAligned /\ s.buffer.indexType = dstType)))

\* Case 2b, the static index buffer, after StreamInIndexBuffer has filled it.
FilledStaticBuffer(s, m, bufs, glBuffer, tr0, call0, ops, startIndex, startOffset, count, dstType, offsetAligned) ==
    IF s.error # NoError
    THEN Result(m, [bufs EXCEPT ![glBuffer].staticIndexBuffer = s.buffer], tr0, call0,
                s.error, "CachedUse", ops \o s.ops, <<>>, s.ok)
    ELSE Result(m, [bufs EXCEPT ![glBuffer].staticIndexBuffer = s.buffer],
                [tr0 EXCEPT !.indexBuffer = StaticIndexBuffer(glBuffer),
                            !.serial = s.buffer.serial,
                            !.startIndex = startIndex,
                            !.startOffset = startOffset],
                call0, NoError, "CachedUse", ops \o s.ops,
                Region(s.buffer.data, startOffset, count, dstType),
                s.ok /\ offsetAligned /\ s.buffer.indexType = dstType)

\* The static translated copy or streaming, going on to stream whatever
\* getData returned.
TranslatedCopyOrStreamingReadUnchecked(staticBuffer, staticBufferInitialized, srcType, dstType, count, glBuffer, offset, offsetAligned, remap, tr0, call0, m, bufs, ops, fault) ==
    IF FallBackToStreaming(staticBuffer, offsetAligned)
    THEN IF FALSE
         THEN Result(m, bufs, tr0, call0, "GetDataFailed", "Stream",
                     Append(ops, <<"buffer", "getData", 0>>), <<>>, TRUE)
         ELSE StreamedFromBuffer(
                  streamIndexData(From(bufs[glBuffer].data, offset), count, srcType,
                                  dstType, remap, tr0, m, fault),
                  bufs, glBuffer, PromotedDataSize(count, srcType),
                  Append(ops, <<"buffer", "getData", 0>>), call0)
    ELSE IF staticBufferInitialized
    THEN Result(m, bufs,
                [tr0 EXCEPT !.indexBuffer = StaticIndexBuffer(glBuffer),
                            !.serial = staticBuffer.serial,
                            !.startIndex = Shr(offset, BytesShift(srcType)),
                            !.startOffset = CachedStartOffset(offset, srcType, dstType)],
                call0, NoError, "CachedUse", ops,
                Region(staticBuffer.data, CachedStartOffset(offset, srcType, dstType),
                       count, dstType),
                offsetAligned /\ staticBuffer.indexType = dstType)
    ELSE IF fault = "getData"
    THEN Result(m, bufs, tr0, call0, "GetDataFailed", "CachedUse",
                Append(ops, <<"buffer", "getData", 0>>), <<>>, TRUE)
    ELSE FilledStaticBuffer(
             StreamInIndexBuffer(staticBuffer, bufs[glBuffer].data,
                                 ConvertCount(Len(bufs[glBuffer].data), srcType),
                                 srcType, dstType, remap, fault),
             m, bufs, glBuffer, tr0, call0, Append(ops, <<"buffer", "getData", 0>>),
             Shr(offset, BytesShift(srcType)), CachedStartOffset(offset, srcType, dstType),
             count, dstType, offsetAligned)

\* Case 2b: use a static translated copy or fall back to streaming.  bufs
\* and ops are the buffers and the operations after the static data was
\* invalidated, if it was.
TranslatedCopyOrStreaming(staticBuffer, staticBufferInitialized, srcType, dstType, count, glBuffer, offset, offsetAligned, remap, tr0, call0, m, bufs, ops, fault) ==
    IF FallBackToStreaming(staticBuffer, offsetAligned)
    THEN IF fault = "getData"
         THEN Result(m, bufs, tr0, call0, "GetDataFailed", "Stream",
                     Append(ops, <<"buffer", "getData", 0>>), <<>>, TRUE)
         ELSE StreamedFromBuffer(
                  streamIndexData(From(bufs[glBuffer].data, offset), count, srcType,
                                  dstType, remap, tr0, m, fault),
                  bufs, glBuffer, PromotedDataSize(count, srcType),
                  Append(ops, <<"buffer", "getData", 0>>), call0)
    ELSE IF staticBufferInitialized
    THEN Result(m, bufs,
                [tr0 EXCEPT !.indexBuffer = StaticIndexBuffer(glBuffer),
                            !.serial = staticBuffer.serial,
                            !.startIndex = Shr(offset, BytesShift(srcType)),
                            !.startOffset = CachedStartOffset(offset, srcType, dstType)],
                call0, NoError, "CachedUse", ops,
                Region(staticBuffer.data, CachedStartOffset(offset, srcType, dstType),
                       count, dstType),
                offsetAligned /\ staticBuffer.indexType = dstType)
    ELSE IF fault = "getData"
    THEN Result(m, bufs, tr0, call0, "GetDataFailed", "CachedUse",
                Append(ops, <<"buffer", "getData", 0>>), <<>>, TRUE)
    ELSE FilledStaticBuffer(
             StreamInIndexBuffer(staticBuffer, bufs[glBuffer].data,
                                 ConvertCount(Len(bufs[glBuffer].data), srcType),
                                 srcType, dstType, remap, fault),
             m, bufs, glBuffer, tr0, call0, Append(ops, <<"buffer", "getData", 0>>),
             Shr(offset, BytesShift(srcType)), CachedStartOffset(offset, srcType, dstType),
             count, dstType, offsetAligned)

\* Case 2: the indices are already in a buffer.
IndicesInBuffer(buffer, srcType, dstType, count, glBuffer, offset, offsetAligned, remap, tr0, call0, m, bufs, fault) ==
    IF UseDirectly(offsetAligned, buffer.supportsDirectBinding, dstType, srcType)
    THEN \* Case 2a
         Result(m, bufs,
                [tr0 EXCEPT !.storage = glBuffer, !.indexBuffer = NoIndexBuffer,
                            !.serial = buffer.serial,
                            !.startIndex = Shr(offset, BytesShift(srcType)),
                            !.startOffset = offset],
                call0, NoError, "DirectBind", <<>>,
                Region(buffer.data, offset, count, srcType), TRUE)
    ELSE IF StaticBufferInitialized(buffer.staticIndexBuffer)
            /\ ~StaticBufferUsable(buffer.staticIndexBuffer, offsetAligned, dstType)
    THEN TranslatedCopyOrStreaming(
             NoBuffer, TRUE, srcType, dstType, count, glBuffer, offset, offsetAligned,
             remap, tr0, call0, m,
             [bufs EXCEPT ![glBuffer] = InvalidateStaticData(buffer)],
             << <<"buffer", "invalidateStaticData", 0>> >>, fault)
    ELSE TranslatedCopyOrStreaming(
             buffer.staticIndexBuffer, StaticBufferInitialized(buffer.staticIndexBuffer),
             srcType, dstType, count, glBuffer, offset, offsetAligned, remap, tr0, call0,
             m, bufs, <<>>, fault)

\* prepareIndexData, once dstType is known and the descriptor has its first
\* fields.
PrepareIndexDataAs(srcType, dstType, count, glBuffer, indices, remap, tr0, call0, m, bufs, fault) ==
    IF glBuffer = NULL
    THEN \* Case 1: the indices are passed by pointer
         StreamedFromPointer(
             streamIndexData(indices, count, srcType, dstType, remap, tr0, m, fault),
             bufs, call0)
    ELSE IndicesInBuffer(bufs[glBuffer], srcType, dstType, count, glBuffer, U32(indices),
                         OffsetAligned(U32(indices), srcType), remap, tr0, call0, m, bufs,
                         fault)

\* The descriptor with the fields prepareIndexData sets first.
TranslatedFor(srcType, dstType, count, glBuffer, indices, indexRange) ==
    [NewTranslated(indexRange) EXCEPT
        !.indexType = dstType,
        !.srcIndexData = [srcBuffer |-> glBuffer, srcIndices |-> indices,
                          srcIndexType |-> srcType, srcCount |-> count]]

\* What is kept of a call as it starts.
CallFor(glBuffer, primitiveRestartFixedIndexEnabled, bufs) ==
    [NoCall EXCEPT !.kind = "prepareIndexData",
                   !.primitiveRestartFixedIndexEnabled = primitiveRestartFixedIndexEnabled,
                   !.staticBefore = IF glBuffer = NULL THEN NoBuffer
                                    ELSE bufs[glBuffer].staticIndexBuffer]

\* prepareIndexData, once primitiveRestartWorkaround is known.
PrepareIndexDataWith(primitiveRestartWorkaround, srcType, count, glBuffer, indices, indexRange, primitiveRestartFixedIndexEnabled, m, bufs, fault) ==
    PrepareIndexDataAs(
        srcType, DstType(srcType, primitiveRestartWorkaround), count, glBuffer, indices,
        RemapArgument(primitiveRestartFixedIndexEnabled, primitiveRestartWorkaround),
        TranslatedFor(srcType, DstType(srcType, primitiveRestartWorkaround), count,
                      glBuffer, indices, indexRange),
        CallFor(glBuffer, primitiveRestartFixedIndexEnabled, bufs),
        m, bufs, fault)

\* prepareIndexData(context, srcType, count, glBuffer, indices, translated,
\* primitiveRestartFixedIndexEnabled): [m, bufs, translated, call].  indices is
\* the caller's index array when glBuffer is NULL and a byte offset otherwise;
\* fault names the collaborator operation that fails in this call, if any.
prepareIndexData(srcType, count, glBuffer, indices, indexRange, primitiveRestartFixedIndexEnabled, m, bufs, rendererClass, fault) ==
    PrepareIndexDataWith(
        PrimitiveRestartWorkaround(primitiveRestartFixedIndexEnabled, srcType,
                                   rendererClass,
                                   HasPrimitiveRestartIndex(indexRange, count, srcType)),
        srcType, count, glBuffer, indices, indexRange, primitiveRestartFixedIndexEnabled,
        m, bufs, fault)

----------------------------------------------------------------------------
(* The draws and the other operations of the program.  A draw prepares its *)
(* index data and consumes the descriptor; the descriptor does not outlive *)
(* the draw.                                                               *)

\* The buffers the draws may name.
BufferIds == {"A"}

\* The contents a buffer may hold: up to MaxBytes bytes, all 0 or all 255, so
\* that every index type finds elements that are its restart index and
\* elements that are not.
Contents ==
    {[j \in 1..n |-> v] : n \in 0..MaxBytes, v \in {0, 255}}

\* The element values of an index array passed by pointer: 5 and the
\* restart index of the type.
ImmediateVals(srcType) ==
    {Cast(<<5>>, TypeBytes(srcType)), CastTo(GetPrimitiveRestartIndex(srcType), srcType)}

\* The bytes of an array of n-byte elements.
ArrayBytes(elems, n) ==
    [j \in 1..(Len(elems) * n) |-> elems[((j - 1) \div n) + 1][((j - 1) % n) + 1]]

\* The index arrays passed by pointer: count elements of srcType.
ImmediateArrays(srcType, count) ==
    {ArrayBytes(e, TypeBytes(srcType)) : e \in [1..count -> ImmediateVals(srcType)]}

\* Counts around the limits of StreamInIndexBuffer; the array of such a draw
\* is not enumerated, no storage is large enough for it to be read.
\* The last is the largest GLsizei.
HugeCounts == {2 ^ (UIntBits - 2) - 1, 2 ^ (UIntBits - 2), 2 ^ (UIntBits - 1) - 1}

\* The index ranges the caller's scan may have left in translated->indexRange.
IndexRanges(srcType, count) ==
    {[vertexIndexCount |-> count, end |-> <<0>>],
     [vertexIndexCount |-> count, end |-> GetPrimitiveRestartIndex(srcType)]}
    \cup (IF 0 < count /\ count <= MaxCount
          THEN {[vertexIndexCount |-> count - 1, end |-> <<0>>]} ELSE {})

\* ASSERT(srcTypeInfo.bytes * count + offset <= buffer->getSize())
RangeInBuffer(srcType, count, offset, size) ==
    U32(U32(TypeBytes(srcType) * count) + offset) <= size

\* A BufferD3D: [data, supportsDirectBinding, serial, staticIndexBuffer]
NewBuffer(b, data, supportsDirectBinding) ==
    [data |-> data, supportsDirectBinding |-> supportsDirectBinding,
     serial |-> [kind |-> "buffer", of |-> b, alloc |-> 0],
     staticIndexBuffer |-> NoBuffer]

Idle == call.kind = "none"

Init ==
    /\ mRendererClass \in RendererClasses
    /\ mStreamingBufferShort = NoBuffer
    /\ mStreamingBufferInt = NoBuffer
    /\ \E d \in Contents, s \in BOOLEAN :
         buffers = [b \in BufferIds |-> NewBuffer(b, d, s)]
    /\ translated = NewTranslated(NoIndexRange)
    /\ call = NoCall

\* The state after a call of prepareIndexData that yielded r.
Returned(r, fault, again) ==
    /\ mStreamingBufferShort' = r.m.short
    /\ mStreamingBufferInt' = r.m.int
    /\ buffers' = r.bufs
    /\ translated' = r.translated
    /\ call' = [r.call EXCEPT !.again = again, !.fault = fault,
                              !.serialBefore = IF again THEN translated.serial
                                               ELSE NoSerial]
    /\ UNCHANGED mRendererClass

\* One call of prepareIndexData with the arguments given.
Prepare(srcType, count, glBuffer, indices, indexRange, fixedIndexEnabled, fault, again) ==
    /\ NoMaxUIntIndices(mRendererClass, fixedIndexEnabled,
                        HasPrimitiveRestartIndex(indexRange, count, srcType),
                        indexRange, srcType)
    /\ Returned(prepareIndexData(srcType, count, glBuffer, indices, indexRange,
                                 fixedIndexEnabled, Manager, buffers, mRendererClass,
                                 fault),
                fault, again)

\* A draw whose indices are passed by pointer.
PrepareImmediate ==
    /\ Idle
    /\ \E srcType \in IndexTypes, count \in (0..MaxCount) \cup HugeCounts,
          fixedIndexEnabled \in BOOLEAN :
         \E indices \in (IF count <= MaxCount THEN ImmediateArrays(srcType, count)
                         ELSE {<<>>}),
            indexRange \in (IF count <= MaxCount THEN IndexRanges(srcType, count)
                            ELSE {[vertexIndexCount |-> count, end |-> <<0>>]}) :
           Prepare(srcType, count, NULL, indices, indexRange, fixedIndexEnabled,
                   "none", FALSE)

\* A draw whose indices are in a buffer.
PrepareBuffer ==
    /\ Idle
    /\ \E glBuffer \in DOMAIN buffers, srcType \in IndexTypes, count \in 0..MaxCount,
          fixedIndexEnabled \in BOOLEAN :
         \E offset \in 0..Len(buffers[glBuffer].data),
            indexRange \in IndexRanges(srcType, count) :
           /\ RangeInBuffer(srcType, count, offset, Len(buffers[glBuffer].data))
           /\ Prepare(srcType, count, glBuffer, offset, indexRange, fixedIndexEnabled,
                      "none", FALSE)

\* A draw served from the static index buffer is issued again, with the
\* descriptor of the first still at hand.
PrepareAgain ==
    /\ call.kind = "prepareIndexData"
    /\ call.path = "CachedUse"
    /\ Prepare(translated.srcIndexData.srcIndexType, translated.srcIndexData.srcCount,
               translated.srcIndexData.srcBuffer, translated.srcIndexData.srcIndices,
               translated.indexRange, call.primitiveRestartFixedIndexEnabled,
               "none", TRUE)

\* The draw is over: its descriptor is gone.
DrawDone ==
    /\ call.kind = "prepareIndexData"
    /\ translated' = NewTranslated(NoIndexRange)
    /\ call' = NoCall
    /\ UNCHANGED <<mRendererClass, mStreamingBufferShort, mStreamingBufferInt, buffers>>

\* IndexDataManager::deinitialize
Deinitialize ==
    /\ Idle
    /\ mStreamingBufferShort' = Deinitialized(Manager).short
    /\ mStreamingBufferInt' = Deinitialized(Manager).int
    /\ UNCHANGED <<mRendererClass, buffers, translated, call>>

\* The application changes the content of a buffer; the buffer invalidates
\* its static data.
BufferData ==
    /\ Idle
    /\ \E b \in DOMAIN buffers, d \in Contents :
         buffers' = [buffers EXCEPT ![b] =
            NewBuffer(b, d, buffers[b].supportsDirectBinding)]
    /\ UNCHANGED <<mRendererClass, mStreamingBufferShort, mStreamingBufferInt,
                   translated, call>>

\* BufferD3D::initializeStaticData: the buffer's heuristic creates its static
\* index buffer, still empty.
InitializeStaticData ==
    /\ Idle
    /\ \E b \in DOMAIN buffers :
         /\ buffers[b].staticIndexBuffer = NoBuffer
         /\ buffers' = [buffers EXCEPT ![b].staticIndexBuffer = NewIndexBuffer("static", b)]
    /\ UNCHANGED <<mRendererClass, mStreamingBufferShort, mStreamingBufferInt,
                   translated, call>>

Next ==
    \/ PrepareImmediate
    \/ PrepareBuffer
    \/ PrepareAgain
    \/ DrawDone
    \/ Deinitialize
    \/ BufferData
    \/ InitializeStaticData

Spec == Init /\ [][Next]_vars

----------------------------------------------------------------------------
(* The manager with collaborators that fail: in each call one operation of *)
(* a collaborator may report an error.                                     *)

\* The operation that fails in a call, if any: the first reserve of a
\* streaming buffer just created, or the reserve, map or unmap of
\* StreamInIndexBuffer, or getData of the buffer.
Faults == {"none", "create", "reserve", "map", "unmap", "getData"}

\* A draw whose indices are passed by pointer, with a failing collaborator.
PrepareImmediateFailing ==
    /\ Idle
    /\ \E srcType \in IndexTypes, count \in 0..MaxCount,
          fixedIndexEnabled \in BOOLEAN, fault \in Faults :
         \E indices \in ImmediateArrays(srcType, count),
            indexRange \in IndexRanges(srcType, count) :
           Prepare(srcType, count, NULL, indices, indexRange, fixedIndexEnabled,
                   fault, FALSE)

\* A draw whose indices are in a buffer, with a failing collaborator.
PrepareBufferFailing ==
    /\ Idle
    /\ \E glBuffer \in DOMAIN buffers, srcType \in IndexTypes, count \in 0..MaxCount,
          fixedIndexEnabled \in BOOLEAN, fault \in Faults :
         \E offset \in 0..Len(buffers[glBuffer].data),
            indexRange \in IndexRanges(srcType, count) :
           /\ RangeInBuffer(srcType, count, offset, Len(buffers[glBuffer].data))
           /\ Prepare(srcType, count, glBuffer, offset, indexRange, fixedIndexEnabled,
                      fault, FALSE)

\* The buffer holds one of two contents throughout: two bytes that are the
\* restart index of the 8-bit and 16-bit types, or four bytes of zeros.
FailingInit ==
    /\ Init
    /\ \A b \in BufferIds : buffers[b].data \in {<<255, 255>>, <<0, 0, 0, 0>>}

FailingNext ==
    \/ PrepareImmediateFailing
    \/ PrepareBufferFailing
    \/ DrawDone
    \/ Deinitialize
    \/ InitializeStaticData

FailingSpec == FailingInit /\ [][FailingNext]_vars

----------------------------------------------------------------------------
(* The manager with two buffers, A and B, that draws take their indices    *)
(* from in any order.                                                      *)

\* The most indices of a draw here: enough for a streaming buffer to grow
\* past its initial size and hold the regions of two draws.
MaxSourceCount == 2

\* The draws that take count indices of a type from a buffer: the requests
\* [srcType, count, glBuffer, offset, indexRange, fixedIndexEnabled].
Requests(glBuffer, size) ==
    {q \in [srcType : IndexTypes, count : 1..MaxSourceCount, glBuffer : {glBuffer},
            offset : 0..size,
            indexRange : {[vertexIndexCount |-> c, end |-> e] :
                             c \in 1..MaxSourceCount,
                             e \in {GetPrimitiveRestartIndex(t) : t \in IndexTypes}},
            fixedIndexEnabled : BOOLEAN] :
        /\ RangeInBuffer(q.srcType, q.count, q.offset, size)
        /\ q.indexRange.vertexIndexCount = q.count
        /\ q.indexRange.end = GetPrimitiveRestartIndex(q.srcType)}

\* Both buffers hold two bytes that are the restart index of the 8-bit and
\* 16-bit types; B may support direct binding.
SourcesInit ==
    /\ mRendererClass = RENDERER_D3D11
    /\ mStreamingBufferShort = NoBuffer
    /\ mStreamingBufferInt = NoBuffer
    /\ \E s \in BOOLEAN :
         buffers = [b \in {"A", "B"} |->
                      NewBuffer(b, <<255, 255>>, IF b = "A" THEN FALSE ELSE s)]
    /\ translated = NewTranslated(NoIndexRange)
    /\ call = NoCall

\* A draw whose indices are in one of the buffers.
PrepareSource ==
    /\ Idle
    /\ \E glBuffer \in DOMAIN buffers :
         \E q \in Requests(glBuffer, Len(buffers[glBuffer].data)) :
           Prepare(q.srcType, q.count, q.glBuffer, q.offset, q.indexRange,
                   q.fixedIndexEnabled, "none", FALSE)

SourcesNext ==
    \/ PrepareSource
    \/ DrawDone
    \/ InitializeStaticData

SourcesSpec == SourcesInit /\ [][SourcesNext]_vars

----------------------------------------------------------------------------
(* The converter on its own: ConvertIndices applied to index arrays of     *)
(* every type under either value of usePrimitiveRestartFixedIndex.         *)

\* The longest index array handed to ConvertIndices on its own, in elements.
MaxConvertCount == 4

\* The element values of such an array: 0, 1, 2, 255 and the restart index
\* of the type.
ConvertVals(type) ==
    {Cast(<<v>>, TypeBytes(type)) : v \in {0, 1, 2, 255}}
        \cup {CastTo(GetPrimitiveRestartIndex(type), type)}

\* The index arrays of count elements of a type.
ConvertArrays(type, count) ==
    {ArrayBytes(e, TypeBytes(type)) : e \in [1..count -> ConvertVals(type)]}

ConvertInit ==
    /\ mRendererClass = RENDERER_D3D11
    /\ mStreamingBufferShort = NoBuffer
    /\ mStreamingBufferInt = NoBuffer
    /\ buffers = [b \in BufferIds |-> NewBuffer(b, <<>>, FALSE)]
    /\ translated = NewTranslated(NoIndexRange)
    /\ call = NoCall

\* The state after a call of ConvertIndices that yielded c: the arguments
\* are kept where a call of prepareIndexData keeps its own.
ConvertReturned(c, sourceType, destinationType, input, count, usePrimitiveRestartFixedIndex) ==
    /\ call' = [NoCall EXCEPT !.kind = "ConvertIndices", !.data = c.out, !.ok = c.ok,
                              !.primitiveRestartFixedIndexEnabled =
                                  usePrimitiveRestartFixedIndex]
    /\ translated' = [NewTranslated(NoIndexRange) EXCEPT
                         !.indexType = destinationType,
                         !.srcIndexData = [srcBuffer |-> NULL, srcIndices |-> input,
                                           srcIndexType |-> sourceType,
                                           srcCount |-> count]]
    /\ UNCHANGED <<mRendererClass, mStreamingBufferShort, mStreamingBufferInt, buffers>>

\* One call of ConvertIndices into an output of the size the destination
\* type needs.
ConvertCall ==
    /\ Idle
    /\ \E sourceType \in IndexTypes, destinationType \in IndexTypes,
          count \in 0..MaxConvertCount, usePrimitiveRestartFixedIndex \in BOOLEAN :
         \E input \in ConvertArrays(sourceType, count) :
           ConvertReturned(ConvertIndices(sourceType, destinationType, input, count,
                                          <<>>, usePrimitiveRestartFixedIndex),
                           sourceType, destinationType, input, count,
                           usePrimitiveRestartFixedIndex)

\* The caller is done with the output.
ConvertDone ==
    /\ call.kind = "ConvertIndices"
    /\ translated' = NewTranslated(NoIndexRange)
    /\ call' = NoCall
    /\ UNCHANGED <<mRendererClass, mStreamingBufferShort, mStreamingBufferInt, buffers>>

ConvertNext ==
    \/ ConvertCall
    \/ ConvertDone

ConvertSpec == ConvertInit /\ [][ConvertNext]_vars

----------------------------------------------------------------------------
(* What the properties below speak about: the request of the last          *)
(* prepareIndexData call, read from the descriptor it filled, and the      *)
(* index values the request names.                                         *)

Prepared == call.kind = "prepareIndexData"
Succeeded == Prepared /\ call.error = NoError

ReqSrcType == translated.srcIndexData.srcIndexType
ReqCount == translated.srcIndexData.srcCount
ReqBuffer == translated.srcIndexData.srcBuffer
ReqFixed == call.primitiveRestartFixedIndexEnabled
BufferBacked == Prepared /\ ReqBuffer # NULL
ReqOffset == translated.srcIndexData.srcIndices

\* The restart index is taken to be in the range of the request.
ReqSentinelPresent ==
    \/ translated.indexRange.vertexIndexCount < ReqCount
    \/ SameValue(translated.indexRange.end, GetPrimitiveRestartIndex(ReqSrcType))

\* The request is one the restart workaround applies to.
ReqWorkaroundActive ==
    /\ ~ReqFixed
    /\ ReqSrcType = GL_UNSIGNED_SHORT
    /\ mRendererClass = RENDERER_D3D11
    /\ ReqSentinelPresent

\* The bytes of the source the request names, from its first element on.
ReqSourceBytes ==
    IF ReqBuffer = NULL THEN translated.srcIndexData.srcIndices
    ELSE From(buffers[ReqBuffer].data, ReqOffset)

\* count elements of n bytes each, widened to d bytes each; with remapped,
\* an element that is all ones becomes all ones.
Widened(bytes, count, n, d, remapped) ==
    [j \in 1..(count * d) |->
        LET i == (j - 1) \div d
            k == ((j - 1) % d) + 1
            allOnes == \A b \in 1..n : Byte(bytes, i * n + b) = 255
        IN IF remapped /\ allOnes THEN 255
           ELSE IF k <= n THEN Byte(bytes, i * n + k) ELSE 0]

\* The operations of a call made on a storage object of the kind given, and
\* those of the name given: their positions in call.ops.
OpsOn(kind) == {i \in 1..Len(call.ops) : call.ops[i][1] = kind}
OpsNamed(op) == {i \in 1..Len(call.ops) : call.ops[i][2] = op}

\* The call converted the data its descriptor refers to.
ConvertedNow == OpsNamed("convert") # {}

\* The byte offset of a buffer-backed request is a multiple of the size of a
\* source element.
ReqAligned == ReqOffset % TypeBytes(ReqSrcType) = 0

\* A buffer-backed request that can bind the buffer itself.
ReqDirect ==
    /\ BufferBacked
    /\ ReqAligned
    /\ translated.indexType = ReqSrcType
    /\ buffers[ReqBuffer].supportsDirectBinding

\* The static index buffer the call found on its buffer.
CacheBefore == call.staticBefore
CacheAbsent == CacheBefore = NoBuffer
CacheEmpty == CacheBefore # NoBuffer /\ CacheBefore.bufferSize = 0
CacheInitialized == CacheBefore # NoBuffer /\ CacheBefore.bufferSize # 0

\* The static index buffer of the buffer of the request, after the call.
CacheAfter == buffers[ReqBuffer].staticIndexBuffer

----------------------------------------------------------------------------
(* The format policy. *)

\* C1: whatever the source type, the restart flag, the renderer class and the
\* presence of the restart index, the destination type of a call is 32-bit
\* exactly when the source is 32-bit or the workaround is active (restart
\* flag off, 16-bit source, D3D11, restart index present), and 16-bit
\* otherwise; an 8-bit source always gets a 16-bit destination.
C1_FormatPolicy ==
    Prepared =>
        /\ translated.indexType =
              IF ReqSrcType = GL_UNSIGNED_INT \/ ReqWorkaroundActive
              THEN GL_UNSIGNED_INT ELSE GL_UNSIGNED_SHORT
        /\ ReqSrcType = GL_UNSIGNED_BYTE => translated.indexType = GL_UNSIGNED_SHORT

\* A 16-bit source was widened by the workaround, and an 8-bit source with
\* the restart index present and the flag off on D3D11 was not.
C1_Witness ==
    /\ Prepared
    /\ ReqSrcType = GL_UNSIGNED_BYTE
    /\ ~ReqFixed /\ mRendererClass = RENDERER_D3D11 /\ ReqSentinelPresent
    /\ translated.indexType = GL_UNSIGNED_SHORT

----------------------------------------------------------------------------
(* The converter under the workaround. *)

\* C2, as claimed: under the workaround the data of the descriptor holds
\* 4294967295 wherever the 16-bit source holds 65535.
C2_Claimed ==
    (Succeeded /\ ReqWorkaroundActive /\ ConvertedNow) =>
        /\ translated.indexType = GL_UNSIGNED_INT
        /\ call.data = Widened(ReqSourceBytes, ReqCount, 2, 4, TRUE)

\* C2, amended: under the workaround the destination type is 32-bit and
\* every element of the data the call converts is the source element
\* zero-extended, 65535 staying 65535: the restart index is not remapped,
\* since the remap follows the restart flag, which is off whenever the
\* workaround is active.
C2_WorkaroundKeepsValues ==
    (Succeeded /\ ReqWorkaroundActive /\ ConvertedNow) =>
        /\ translated.indexType = GL_UNSIGNED_INT
        /\ call.data = Widened(ReqSourceBytes, ReqCount, 2, 4, FALSE)

\* A streamed 16-bit source holding 65535 was widened under the workaround.
C2_Witness ==
    /\ Succeeded /\ ReqWorkaroundActive /\ call.path = "Stream"
    /\ ReqCount = 1
    /\ Byte(ReqSourceBytes, 1) = 255 /\ Byte(ReqSourceBytes, 2) = 255
    /\ call.data = <<255, 255, 0, 0>>

----------------------------------------------------------------------------
(* The data a descriptor refers to. *)

\* C3, as claimed: the data of every descriptor returned is the conversion of
\* the current content of the source under the source type, destination type
\* and remap setting of the current call; a static index buffer built under
\* another setting is never the one referred to.
C3_NeverStale ==
    Succeeded =>
        call.data = Widened(ReqSourceBytes, ReqCount, TypeBytes(ReqSrcType),
                            TypeBytes(translated.indexType), ReqFixed)

----------------------------------------------------------------------------
(* The paths of a buffer-backed draw. *)

\* C4, as claimed: a buffer-backed draw that cannot bind directly streams
\* whenever the static index buffer is absent, empty or of another type.
C4_Claimed ==
    (BufferBacked /\ ~ReqDirect
        /\ (CacheAbsent \/ CacheEmpty \/ CacheBefore.indexType # translated.indexType)) =>
        /\ call.path = "Stream"
        /\ Succeeded => translated.indexBuffer = StreamingIndexBuffer(translated.indexType)

\* C4, amended: a buffer-backed draw that cannot bind directly streams
\* whenever the static index buffer is absent, or initialized with a type
\* other than the destination type, or the offset is not aligned, and its
\* descriptor then refers to the streaming buffer; an empty static index
\* buffer with an aligned offset is not streamed but filled in this call
\* and used.
C4_StreamingFallback ==
    (BufferBacked /\ ~ReqDirect) =>
        /\ (CacheAbsent \/ ~ReqAligned
              \/ (CacheInitialized /\ CacheBefore.indexType # translated.indexType)) =>
              /\ call.path = "Stream"
              /\ Succeeded =>
                    /\ translated.indexBuffer = StreamingIndexBuffer(translated.indexType)
                    /\ translated.serial.kind = "streaming"
        /\ (CacheEmpty /\ ReqAligned) =>
              /\ call.path = "CachedUse"
              /\ Succeeded =>
                    /\ translated.indexBuffer = StaticIndexBuffer(ReqBuffer)
                    /\ ConvertedNow

\* An empty static index buffer was filled and used.
C4_Witness ==
    /\ BufferBacked /\ ~ReqDirect /\ CacheEmpty /\ ReqAligned
    /\ Succeeded /\ call.path = "CachedUse"
    /\ ReqCount = 1

\* C5: a buffer-backed draw binds the buffer directly exactly when the offset
\* is a multiple of the source element size, the destination type is the
\* source type and the buffer supports direct binding; then nothing is read,
\* converted, reserved or mapped, the static index buffer is as it was, and
\* the descriptor refers to the buffer itself with the buffer's serial,
\* startIndex = offset / element size and startOffset = offset.
C5_DirectBinding ==
    BufferBacked =>
        /\ (call.path = "DirectBind") <=>
              (/\ ReqOffset % TypeBytes(ReqSrcType) = 0
               /\ translated.indexType = ReqSrcType
               /\ buffers[ReqBuffer].supportsDirectBinding)
        /\ (call.path = "DirectBind") =>
              /\ call.error = NoError
              /\ call.ops = <<>>
              /\ CacheAfter = CacheBefore
              /\ translated.storage = ReqBuffer
              /\ translated.indexBuffer = NoIndexBuffer
              /\ translated.serial = buffers[ReqBuffer].serial
              /\ translated.startIndex = ReqOffset \div TypeBytes(ReqSrcType)
              /\ translated.startOffset = ReqOffset

\* A buffer that has a static index buffer was bound directly at an offset
\* other than 0.
C5_Witness ==
    /\ BufferBacked /\ call.path = "DirectBind"
    /\ ReqOffset > 0 /\ ReqCount = 1
    /\ ~CacheAbsent

\* C6: a buffer-backed draw that cannot bind directly and finds the static
\* index buffer initialized, of the destination type, with an aligned offset
\* uses it without streaming or converting: the descriptor has the static
\* index buffer and its serial, startIndex = offset / source element size
\* and startOffset = startIndex * destination element size.
C6_CachedUse ==
    (BufferBacked /\ ~ReqDirect /\ CacheInitialized
        /\ CacheBefore.indexType = translated.indexType /\ ReqAligned) =>
        /\ call.path = "CachedUse"
        /\ call.error = NoError
        /\ call.ops = <<>>
        /\ CacheAfter = CacheBefore
        /\ translated.indexBuffer = StaticIndexBuffer(ReqBuffer)
        /\ translated.serial = CacheBefore.serial
        /\ translated.startIndex = ReqOffset \div TypeBytes(ReqSrcType)
        /\ translated.startOffset =
              (ReqOffset \div TypeBytes(ReqSrcType)) * TypeBytes(translated.indexType)

\* An initialized static index buffer was used for 8-bit indices at an
\* offset other than 0.
C6_Witness ==
    /\ BufferBacked /\ ~ReqDirect /\ CacheInitialized /\ ReqAligned
    /\ CacheBefore.indexType = translated.indexType
    /\ ReqSrcType = GL_UNSIGNED_BYTE /\ ReqOffset = 1 /\ ReqCount = 1
    /\ call.path = "CachedUse"

\* C7: a draw that cannot bind directly and finds the static index buffer
\* initialized with a type other than its destination type invalidates it
\* first, then streams, in the same call, and its descriptor refers to the
\* streaming buffer, never to the static index buffer.
C7_InvalidateMismatched ==
    (BufferBacked /\ ~ReqDirect /\ CacheInitialized
        /\ CacheBefore.indexType # translated.indexType) =>
        /\ call.path = "Stream"
        /\ Len(call.ops) >= 1
        /\ call.ops[1] = <<"buffer", "invalidateStaticData", 0>>
        /\ OpsOn("static") = {}
        /\ CacheAfter = NoBuffer
        /\ Succeeded =>
              /\ OpsOn("streaming") # {}
              /\ translated.indexBuffer = StreamingIndexBuffer(translated.indexType)
              /\ translated.serial # CacheBefore.serial

\* A static index buffer of 16-bit indices was invalidated by a draw that
\* needed 32-bit indices, and the draw was streamed.
C7_Witness ==
    /\ BufferBacked /\ ~ReqDirect /\ CacheInitialized
    /\ CacheBefore.indexType = GL_UNSIGNED_SHORT
    /\ translated.indexType = GL_UNSIGNED_INT
    /\ Succeeded /\ call.path = "Stream"

\* C8: with a source type other than the destination type, a buffer-backed
\* draw that finds no static index buffer streams and then promotes the
\* static usage of the buffer; one that finds the static index buffer the
\* buffer has created since, empty or of the destination type, with an
\* aligned offset, is served from it, filling it first when it is empty,
\* and does not stream.
C8_StreamThenCache ==
    (BufferBacked /\ translated.indexType # ReqSrcType) =>
        /\ CacheAbsent =>
              /\ call.path = "Stream"
              /\ Succeeded =>
                    call.ops[Len(call.ops)] =
                        <<"buffer", "promoteStaticUsage", ReqCount * TypeBytes(ReqSrcType)>>
        /\ (~CacheAbsent /\ ReqAligned
              /\ (CacheEmpty \/ CacheBefore.indexType = translated.indexType)) =>
              /\ call.path = "CachedUse"
              /\ OpsOn("streaming") = {}
              /\ OpsNamed("promoteStaticUsage") = {}
              /\ (Succeeded /\ CacheEmpty) =>
                    /\ ConvertedNow
                    /\ CacheAfter.indexType = translated.indexType
                    /\ CacheAfter.data =
                          Widened(buffers[ReqBuffer].data,
                                  Len(buffers[ReqBuffer].data) \div TypeBytes(ReqSrcType),
                                  TypeBytes(ReqSrcType), TypeBytes(translated.indexType),
                                  ReqFixed)

\* 8-bit indices were served from a static index buffer the draw found empty
\* and filled.
C8_Witness ==
    /\ BufferBacked /\ translated.indexType # ReqSrcType
    /\ CacheEmpty /\ ReqAligned
    /\ Succeeded /\ call.path = "CachedUse" /\ ConvertedNow
    /\ CacheAfter.bufferSize > 0

----------------------------------------------------------------------------
(* A draw issued again. *)

\* C9, as claimed: when a draw served from the static index buffer is issued
\* again unchanged and is served from it again, the serial is the same and
\* the second call does no conversion work.
C9_Claimed ==
    (Succeeded /\ call.again /\ call.serialBefore # NoSerial
        /\ call.path = "CachedUse") =>
        /\ translated.serial = call.serialBefore
        /\ call.ops = <<>>

\* C9, amended: when a draw served from the static index buffer is issued
\* again unchanged, and the first call left the static index buffer with
\* content (the buffer holds at least one whole source element), the second
\* call succeeds on the same path with the same serial and does no
\* conversion work: no read of the source, no reserve, map or unmap.
C9_CacheReuse ==
    (Prepared /\ call.again /\ call.serialBefore # NoSerial
        /\ call.path = "CachedUse" /\ CacheInitialized) =>
        /\ call.error = NoError
        /\ translated.serial = call.serialBefore
        /\ call.ops = <<>>
        /\ CacheAfter = CacheBefore

\* A draw was served again from the static index buffer the first call filled.
C9_Witness ==
    /\ Succeeded /\ call.again /\ call.serialBefore # NoSerial
    /\ call.path = "CachedUse" /\ CacheInitialized
    /\ ReqCount = 1

----------------------------------------------------------------------------
(* The capacity check. *)

\* The count of the request exceeds what unsigned int can size at the
\* destination type.
ReqExceedsCapacity == ReqCount * TypeBytes(translated.indexType) > UINT_MAX

\* The call streamed, or would have: it went to the streaming buffer.
ReqStreams == Prepared /\ call.path = "Stream"

\* The reserves of the call that size a streaming buffer just created.
InitialReserves ==
    {i \in OpsNamed("reserve") : i > 1 /\ call.ops[i - 1][2] = "new"}

\* C10, as claimed: a count that overflows the byte-size range fails with
\* OutOfMemory before any reserve on a storage object, in every call.
C10_Claimed ==
    (ReqStreams /\ ReqExceedsCapacity) =>
        /\ call.error = "OutOfMemory"
        /\ OpsNamed("reserve") = {}

\* C10, amended: a count that overflows the byte-size range fails with
\* OutOfMemory before any reserve of the size of the request; the only
\* reserve such a call can have made is the initial one of a streaming
\* buffer it created, which precedes the capacity check in the first
\* streaming call for a destination type.  A count that does not overflow
\* is reserved at count * element size, which does not wrap.
C10_CapacityCheck ==
    ReqStreams =>
        /\ ReqExceedsCapacity =>
              /\ call.error = "OutOfMemory"
              /\ OpsNamed("map") = {}
              /\ OpsNamed("reserve") = InitialReserves
              /\ \A i \in InitialReserves :
                    call.ops[i] = <<"streaming", "reserve", INITIAL_INDEX_BUFFER_SIZE>>
        /\ ~ReqExceedsCapacity =>
              /\ call.error # "OutOfMemory"
              /\ \A i \in OpsNamed("reserve") \ InitialReserves :
                    call.ops[i][3] = ReqCount * TypeBytes(translated.indexType)

\* A count that overflows was refused by a call that had just created its
\* streaming buffer.
C10_Witness ==
    /\ ReqStreams /\ ReqExceedsCapacity
    /\ call.error = "OutOfMemory"
    /\ InitialReserves # {}

----------------------------------------------------------------------------
(* The types the converter is asked for. *)

\* The pairs of source and destination type ConvertIndices supports.
SupportedPairs ==
    { <<GL_UNSIGNED_BYTE, GL_UNSIGNED_SHORT>>, <<GL_UNSIGNED_SHORT, GL_UNSIGNED_SHORT>>,
      <<GL_UNSIGNED_SHORT, GL_UNSIGNED_INT>>, <<GL_UNSIGNED_INT, GL_UNSIGNED_INT>> }

\* The source and destination types of the conversions of the call.
ConvertedPairs == {<<call.ops[i][3][1], call.ops[i][3][2]>> : i \in OpsNamed("convert")}

\* C11: every conversion of a call, into a streaming buffer for an immediate
\* or a buffer-backed source or into a static index buffer, is asked for one
\* of (8,16), (16,16), (16,32), (32,32): the destination is never narrower
\* than the source, and the ASSERTs of ConvertIndices and of
\* getStreamingIndexBuffer on the types hold in every call.
C11_SupportedWidths ==
    Prepared =>
        /\ call.ok
        /\ ConvertedPairs \subseteq SupportedPairs
        /\ \A p \in ConvertedPairs :
              /\ TypeBytes(p[2]) >= TypeBytes(p[1])
              /\ p = <<ReqSrcType, translated.indexType>>
        /\ translated.indexType \in {GL_UNSIGNED_SHORT, GL_UNSIGNED_INT}

\* 8-bit indices of a buffer were converted to 16-bit indices into a static
\* index buffer.
C11_Witness ==
    /\ Succeeded /\ BufferBacked /\ call.path = "CachedUse"
    /\ ConvertedPairs = {<<GL_UNSIGNED_BYTE, GL_UNSIGNED_SHORT>>}
    /\ OpsOn("static") # {}

----------------------------------------------------------------------------
(* The converter. *)

\* A call of ConvertIndices on its own has returned.
Converted == call.kind = "ConvertIndices"

\* Element i (1-based) of the output of the call, and of its input.
OutElem(i) == Elem(call.data, i, TypeBytes(translated.indexType))
InElem(i) == Elem(ReqSourceBytes, i, TypeBytes(ReqSrcType))

\* An index value of a type, all ones: the restart index of the type.
IsRestartIndex(v, type) == v = [k \in 1..TypeBytes(type) |-> 255]

\* An index value and one of a wider type are the same number.
ZeroExtended(v, w) ==
    /\ \A k \in 1..Len(v) : w[k] = v[k]
    /\ \A k \in (Len(v) + 1)..Len(w) : w[k] = 0

\* C12: a conversion between types of unequal width writes as many elements
\* as it reads; with the remap on, every element that is the restart index
\* of the source type becomes the restart index of the destination type and
\* every other element keeps its value; with the remap off every element,
\* the restart index of the source type too, keeps its value (8-bit
\* 0, 1, 2, 255 gives 16-bit 0, 1, 2, 255).
C12_WideningConversion ==
    (Converted /\ call.ok /\ ReqSrcType # translated.indexType) =>
        /\ Len(call.data) = ReqCount * TypeBytes(translated.indexType)
        /\ \A i \in 1..ReqCount :
              IF ReqFixed /\ IsRestartIndex(InElem(i), ReqSrcType)
              THEN IsRestartIndex(OutElem(i), translated.indexType)
              ELSE ZeroExtended(InElem(i), OutElem(i))

\* 8-bit 0, 1, 2, 255 was converted to 16-bit 0, 1, 2, 255 with the remap
\* off.
C12_Witness ==
    /\ Converted /\ call.ok /\ ~ReqFixed
    /\ ReqSrcType = GL_UNSIGNED_BYTE /\ translated.indexType = GL_UNSIGNED_SHORT
    /\ ReqSourceBytes = <<0, 1, 2, 255>>
    /\ call.data = <<0, 0, 1, 0, 2, 0, 255, 0>>

\* C13: a conversion between equal types is a copy byte for byte: for every
\* type, every index array and either value of the remap flag the output
\* is the input.
C13_SameWidthCopy ==
    (Converted /\ ReqSrcType = translated.indexType) =>
        /\ call.ok
        /\ call.data = ReqSourceBytes

\* 16-bit indices holding the restart index were copied with the remap on.
C13_Witness ==
    /\ Converted /\ ReqFixed
    /\ ReqSrcType = GL_UNSIGNED_SHORT /\ translated.indexType = GL_UNSIGNED_SHORT
    /\ ReqCount = 2
    /\ call.data = <<255, 255, 1, 0>>

----------------------------------------------------------------------------
(* Filling the static index buffer. *)

\* The whole elements of the source type the buffer of the request holds.
ReqBufferCount == Len(buffers[ReqBuffer].data) \div TypeBytes(ReqSrcType)

\* The content of the buffer of the request, all of it, converted under the
\* types and the restart flag of the request.
ReqBufferConverted ==
    Widened(buffers[ReqBuffer].data, ReqBufferCount, TypeBytes(ReqSrcType),
            TypeBytes(translated.indexType), ReqFixed)

\* The elements of the request, converted likewise.
ReqConverted ==
    Widened(ReqSourceBytes, ReqCount, TypeBytes(ReqSrcType),
            TypeBytes(translated.indexType), ReqFixed)

\* C14: a call that fills an empty static index buffer converts the whole
\* content of the buffer, size / source element size elements from byte 0,
\* whatever the count and the offset of the draw, in one conversion; a draw
\* served from a static index buffer so filled, at any aligned offset,
\* finds its elements at startIndex = offset / source element size and
\* converts nothing; a static index buffer is never updated in part: a call
\* leaves it as it was or with the whole content converted.
C14_WholeBufferCached ==
    (BufferBacked /\ call.path = "CachedUse") =>
        /\ (Succeeded /\ ConvertedNow) =>
              /\ CacheEmpty
              /\ Cardinality(OpsNamed("convert")) = 1
              /\ \A i \in OpsNamed("convert") :
                    /\ call.ops[i][1] = "static"
                    /\ call.ops[i][3][3] = ReqBufferCount
              /\ CacheAfter.data = ReqBufferConverted
              /\ CacheAfter.bufferSize = Len(ReqBufferConverted)
              /\ translated.startIndex = ReqOffset \div TypeBytes(ReqSrcType)
              /\ call.data = ReqConverted
        /\ (Succeeded /\ ~ConvertedNow /\ CacheBefore.data = ReqBufferConverted) =>
              /\ call.ops = <<>>
              /\ translated.startIndex = ReqOffset \div TypeBytes(ReqSrcType)
              /\ call.data = ReqConverted
        /\ \/ CacheAfter = CacheBefore
           \/ CacheEmpty /\ CacheAfter.data = ReqBufferConverted

\* A draw of one 8-bit index at offset 1 filled the static index buffer with
\* both indices of the buffer.
C14_Witness ==
    /\ Succeeded /\ BufferBacked /\ call.path = "CachedUse" /\ ConvertedNow
    /\ ReqSrcType = GL_UNSIGNED_BYTE /\ ReqOffset = 1 /\ ReqCount = 1
    /\ ReqBufferCount = 2
    /\ Len(CacheAfter.data) = 4

----------------------------------------------------------------------------
(* One path per call, and no operation after a failure. *)

\* The operations of the call that the failing collaborator of the call was
\* asked for: their positions in call.ops.
FaultedOps ==
    CASE call.fault = "create" -> InitialReserves
      [] call.fault = "reserve" -> OpsNamed("reserve") \ InitialReserves
      [] call.fault = "map" -> OpsNamed("map")
      [] call.fault = "unmap" -> OpsNamed("unmap")
      [] call.fault = "getData" -> OpsNamed("getData")
      [] OTHER -> {}

\* The error the failing collaborator of the call reports.
FaultError ==
    CASE call.fault \in {"create", "reserve"} -> "ReserveFailed"
      [] call.fault = "map" -> "MapFailed"
      [] call.fault = "unmap" -> "UnmapFailed"
      [] call.fault = "getData" -> "GetDataFailed"
      [] OTHER -> NoError

\* The operation an error of a collaborator comes from.
ErrorOp ==
    CASE call.error \in {"ReserveFailed", "InternalError"} -> "reserve"
      [] call.error = "MapFailed" -> "map"
      [] call.error = "UnmapFailed" -> "unmap"
      [] call.error = "GetDataFailed" -> "getData"
      [] OTHER -> "none"

\* C15: every call takes exactly one of the paths DirectBind, Stream and
\* CachedUse and ends with a descriptor or with an error; nothing is tried
\* again: when an operation of a collaborator (the first reserve of a new
\* streaming buffer, reserve, map, unmap, getData) reports an error, it is
\* the last operation of the call, no conversion, unmap or usage promotion
\* follows it, and its error is the error of the call.
C15_OnePathNoRetry ==
    Prepared =>
        /\ call.path \in {"DirectBind", "Stream", "CachedUse"}
        /\ call.path = "DirectBind" => call.ops = <<>>
        /\ call.path = "Stream" => OpsOn("static") = {}
        /\ call.path = "CachedUse" => OpsOn("streaming") = {}
        /\ Succeeded <=>
              (translated.storage # NULL \/ translated.indexBuffer # NoIndexBuffer)
        /\ FaultedOps # {} =>
              /\ FaultedOps = {Len(call.ops)}
              /\ call.error = FaultError
        /\ ErrorOp # "none" =>
              /\ call.ops # <<>>
              /\ call.ops[Len(call.ops)][2] = ErrorOp
              /\ Cardinality(OpsNamed(ErrorOp) \ InitialReserves) <= 1

\* mapBuffer failed in a buffer-backed draw that was being streamed: the
\* call ended there.
C15_Witness ==
    /\ BufferBacked /\ call.path = "Stream" /\ call.fault = "map"
    /\ call.error = "MapFailed"
    /\ OpsNamed("getData") # {} /\ OpsNamed("reserve") # {}
    /\ call.ops[Len(call.ops)][2] = "map"
    /\ ReqCount = 1

----------------------------------------------------------------------------
(* The streaming buffers of the manager. *)

\* The destination types and the field of the manager that holds the
\* streaming buffer of each.
SlotOf == [short |-> GL_UNSIGNED_SHORT, int |-> GL_UNSIGNED_INT]

\* The fields of the manager after a step.
ManagerAfter == [short |-> mStreamingBufferShort', int |-> mStreamingBufferInt']

\* A step that is a call of prepareIndexData, and what it logged.
PrepareStep == call'.kind = "prepareIndexData" /\ call' # call
CreatedInStep == {i \in 1..Len(call'.ops) : call'.ops[i] = <<"streaming", "new", 0>>}

\* Each field of the manager holds no streaming buffer or the one of its
\* destination type; a call that streamed refers to the buffer of its
\* destination type; deinitialize done twice, or on a manager that has no
\* streaming buffer, leaves what deinitialize done once leaves.
StreamingBuffersByType ==
    /\ \A slot \in DOMAIN SlotOf :
          Manager[slot] # NoBuffer =>
              /\ Manager[slot].indexType = SlotOf[slot]
              /\ Manager[slot].serial.of = SlotOf[slot]
              /\ ~Manager[slot].static
    /\ (Succeeded /\ call.path = "Stream") =>
          /\ translated.indexBuffer = StreamingIndexBuffer(translated.indexType)
          /\ translated.serial = Manager[StreamingSlot(translated.indexType)].serial
    /\ Deinitialized(Deinitialized(Manager)) = Deinitialized(Manager)
    /\ Deinitialized([short |-> NoBuffer, int |-> NoBuffer]) = Deinitialized(Manager)

\* A streaming buffer comes into being only in a call that streams to its
\* destination type and finds none, one buffer at a time; a call leaves the
\* streaming buffer of every other type alone, and both when it does not
\* stream; a call that streams and finds no buffer of its type creates one;
\* a streaming buffer goes only in deinitialize, which takes both.
StreamingBufferLifetime ==
    /\ \A slot \in DOMAIN SlotOf :
          /\ (Manager[slot] = NoBuffer /\ ManagerAfter[slot] # NoBuffer) =>
                /\ PrepareStep
                /\ call'.path = "Stream"
                /\ translated'.indexType = SlotOf[slot]
                /\ Cardinality(CreatedInStep) = 1
          /\ (Manager[slot] # NoBuffer /\ ManagerAfter[slot] = NoBuffer) =>
                /\ Idle /\ call' = call
                /\ ManagerAfter = [short |-> NoBuffer, int |-> NoBuffer]
                /\ UNCHANGED <<buffers, translated, mRendererClass>>
          /\ (PrepareStep /\ (call'.path # "Stream" \/ translated'.indexType # SlotOf[slot])) =>
                ManagerAfter[slot] = Manager[slot]
          /\ (PrepareStep /\ call'.path = "Stream" /\ translated'.indexType = SlotOf[slot]) =>
                /\ Manager[slot] # NoBuffer => CreatedInStep = {}
                /\ (Manager[slot] = NoBuffer /\ call'.error = NoError) =>
                      /\ Cardinality(CreatedInStep) = 1
                      /\ ManagerAfter[slot] # NoBuffer

\* C16: the manager holds at most one streaming buffer per destination
\* type; each is created only by the first streaming call that needs its
\* type; a streaming call uses only the buffer of its destination type;
\* a streaming buffer is destroyed only by deinitialize; deinitialize is
\* idempotent, and after it the next streaming call creates a buffer again.
C16_StreamingBuffers == []StreamingBuffersByType /\ [][StreamingBufferLifetime]_vars

\* A call created the streaming buffer for 32-bit indices while the one for
\* 16-bit indices, used before, stayed as it was.
C16_Witness ==
    /\ Succeeded /\ call.path = "Stream" /\ translated.indexType = GL_UNSIGNED_INT
    /\ <<"streaming", "new", 0>> \in {call.ops[i] : i \in 1..Len(call.ops)}
    /\ mStreamingBufferInt # NoBuffer
    /\ mStreamingBufferShort # NoBuffer /\ mStreamingBufferShort.writePosition > 0

----------------------------------------------------------------------------
(* Draws from different buffers. *)

\* What a draw q would be given by a manager with the fields m and the
\* buffers bufs.
OutcomeOf(q, m, bufs) ==
    prepareIndexData(q.srcType, q.count, q.glBuffer, q.offset, q.indexRange,
                     q.fixedIndexEnabled, m, bufs, mRendererClass, "none")

\* The buffers other than the one the call of a step took its indices from.
OtherSources == DOMAIN buffers \ {translated'.srcIndexData.srcBuffer}

\* Two outcomes are the same in all that a caller sees: the error, the path,
\* the destination type, the converted data and every field of the
\* descriptor.
SameOutcome(r1, r2) ==
    /\ r1.call.error = r2.call.error
    /\ r1.call.path = r2.call.path
    /\ r1.call.data = r2.call.data
    /\ r1.translated = r2.translated

\* Two outcomes are the same but for where in the streaming buffer, and in
\* which of its storages, a streamed draw has its region.
SameButRegion(r1, r2) ==
    /\ r1.call.error = r2.call.error
    /\ r1.call.path = r2.call.path
    /\ r1.call.data = r2.call.data
    /\ r1.translated.indexType = r2.translated.indexType
    /\ r1.translated.indexBuffer = r2.translated.indexBuffer
    /\ r1.translated.storage = r2.translated.storage
    /\ r1.translated.srcIndexData = r2.translated.srcIndexData
    /\ r1.call.path # "Stream" => r1.translated = r2.translated
    /\ r1.bufs[r1.translated.srcIndexData.srcBuffer] =
          r2.bufs[r2.translated.srcIndexData.srcBuffer]

\* C17, as claimed: a call on one buffer leaves the static index buffer of
\* every other buffer as it was, and every draw from another buffer is
\* given after the call what it would have been given before it: the same
\* path, destination type, data and descriptor, startOffset and serial
\* included.
C17_Claimed ==
    [][PrepareStep =>
          \A y \in OtherSources :
              /\ buffers'[y] = buffers[y]
              /\ \A q \in Requests(y, Len(buffers[y].data)) :
                    SameOutcome(OutcomeOf(q, Manager, buffers),
                                OutcomeOf(q, ManagerAfter, buffers'))]_vars

\* C17, amended: a call on one buffer leaves every other buffer and its
\* static index buffer as they were, and every draw from another buffer is
\* given after the call the path, the result, the destination type, the
\* data and the index buffer it would have been given before it, and does
\* to its own buffer what it would have done; a draw that is bound directly
\* or served from the static index buffer is given the same descriptor
\* throughout; a streamed draw may be given another startOffset, startIndex
\* and serial, the streaming buffers being shared by all sources.
C17_SourcesIsolated ==
    [][PrepareStep =>
          \A y \in OtherSources :
              /\ buffers'[y] = buffers[y]
              /\ \A q \in Requests(y, Len(buffers[y].data)) :
                    SameButRegion(OutcomeOf(q, Manager, buffers),
                                  OutcomeOf(q, ManagerAfter, buffers'))]_vars

\* A draw from A was streamed to a region past the start of the streaming
\* buffer while B had a static index buffer with content.
C17_Witness ==
    /\ Succeeded /\ ReqBuffer = "A" /\ call.path = "Stream"
    /\ translated.startOffset > 0
    /\ "B" \in DOMAIN buffers
    /\ buffers["B"].staticIndexBuffer # NoBuffer
    /\ buffers["B"].staticIndexBuffer.bufferSize > 0

----------------------------------------------------------------------------
(* Indices passed by pointer. *)

\* The request passes its indices by pointer.
Immediate == Prepared /\ ReqBuffer = NULL

\* The streaming buffer of the destination type of the request.
ReqStreamingBuffer == Manager[StreamingSlot(translated.indexType)]

\* What a call on indices passed by pointer leaves: it is streamed, with no
\* operation on a buffer or a static index buffer; when it succeeds it has
\* converted count elements, once, into a region of the streaming buffer
\* of the destination type, which the descriptor refers to.
ImmediateStreamed ==
    Immediate =>
        /\ call.path = "Stream"
        /\ OpsOn("buffer") = {} /\ OpsOn("static") = {}
        /\ Succeeded =>
              /\ Cardinality(OpsNamed("convert")) = 1
              /\ \A i \in OpsNamed("convert") :
                    call.ops[i] = <<"streaming", "convert",
                                    <<ReqSrcType, translated.indexType, ReqCount>> >>
              /\ call.data = ReqConverted
              /\ translated.indexBuffer = StreamingIndexBuffer(translated.indexType)
              /\ translated.storage = NULL
              /\ translated.serial = ReqStreamingBuffer.serial
              /\ translated.startOffset + Len(call.data) = ReqStreamingBuffer.writePosition
              /\ ReqStreamingBuffer.writePosition <= ReqStreamingBuffer.bufferSize

\* C18: a draw whose indices are passed by pointer is always streamed,
\* whatever its type, its alignment and the restart state: exactly count
\* elements are converted into a region of the streaming buffer of the
\* destination type, the descriptor refers to that buffer, no buffer is
\* read, no static index buffer is built or invalidated, no static usage is
\* promoted and no buffer changes.
C18_ImmediateStreams ==
    /\ []ImmediateStreamed
    /\ [][(PrepareStep /\ translated'.srcIndexData.srcBuffer = NULL) =>
             buffers' = buffers]_vars

\* A 16-bit index passed by pointer was widened under the workaround and
\* streamed while the buffer had a static index buffer with content.
C18_Witness ==
    /\ Immediate /\ Succeeded /\ ReqCount = 1
    /\ ReqSrcType = GL_UNSIGNED_SHORT /\ translated.indexType = GL_UNSIGNED_INT
    /\ \E b \in DOMAIN buffers :
          /\ buffers[b].staticIndexBuffer # NoBuffer
          /\ buffers[b].staticIndexBuffer.bufferSize > 0

----------------------------------------------------------------------------
(* The presence of the restart index. *)

\* The indices of the request hold the restart index of the source type.
ReqHoldsRestartIndex ==
    \E i \in 1..ReqCount :
        /\ i * TypeBytes(ReqSrcType) <= Len(ReqSourceBytes)
        /\ IsRestartIndex(InElem(i), ReqSrcType)

\* The request is one the workaround is for: restart flag off, 16-bit
\* source, D3D11.
ReqWorkaroundApplies ==
    ~ReqFixed /\ ReqSrcType = GL_UNSIGNED_SHORT /\ mRendererClass = RENDERER_D3D11

\* C19: the restart index is taken to be present exactly when the index
\* range covers fewer indices than the draw has or ends at the restart
\* index of the source type, whatever the indices are: a 16-bit draw the
\* workaround is for gets a 32-bit destination exactly then, and one whose
\* indices hold the restart index where neither holds keeps a 16-bit
\* destination, and its values in what the call converts or binds.
C19_RestartHeuristic ==
    (Prepared /\ ReqWorkaroundApplies) =>
        /\ translated.indexType = GL_UNSIGNED_INT <=>
              \/ translated.indexRange.vertexIndexCount < ReqCount
              \/ Cast(translated.indexRange.end, 4) = <<255, 255, 0, 0>>
        /\ (ReqHoldsRestartIndex
              /\ translated.indexRange.vertexIndexCount >= ReqCount
              /\ Cast(translated.indexRange.end, 4) # <<255, 255, 0, 0>>) =>
              /\ translated.indexType = GL_UNSIGNED_SHORT
              /\ (Succeeded /\ (ConvertedNow \/ call.path = "DirectBind")) =>
                    call.data = SubSeq(ReqSourceBytes, 1, 2 * ReqCount)

\* A 16-bit draw on D3D11 with the restart flag off, whose index is 65535
\* and whose range neither falls short of the count nor ends at 65535, kept
\* its 16-bit indices.
C19_Witness ==
    /\ Succeeded /\ ReqWorkaroundApplies /\ ReqCount = 1
    /\ ReqHoldsRestartIndex
    /\ translated.indexRange.vertexIndexCount = 1
    /\ translated.indexRange.end = <<0>>
    /\ translated.indexType = GL_UNSIGNED_SHORT
    /\ call.data = <<255, 255>>

----------------------------------------------------------------------------
(* The promotion of static usage. *)

\* The promotions of static usage of the call: their positions in call.ops.
Promotions == OpsNamed("promoteStaticUsage")

\* C20: a call promotes the static usage of its buffer exactly once when it
\* streams the indices of a buffer and succeeds, as its last operation,
\* right after the conversion into the mapped region and the unmap that
\* follows it; a call on indices passed by pointer, a call that binds the
\* buffer directly, a call served from the static index buffer and a call
\* that fails promote nothing.
C20_PromotionAfterStreaming ==
    Prepared =>
        IF BufferBacked /\ call.path = "Stream" /\ call.error = NoError
        THEN /\ Len(call.ops) >= 3
             /\ Promotions = {Len(call.ops)}
             /\ call.ops[Len(call.ops)][1] = "buffer"
             /\ OpsNamed("unmap") = {Len(call.ops) - 1}
             /\ OpsNamed("convert") = {Len(call.ops) - 2}
             /\ call.ops[Len(call.ops) - 1][1] = "streaming"
        ELSE Promotions = {}

\* A streamed draw from a buffer promoted its static usage after its unmap.
C20_Witness ==
    /\ Succeeded /\ BufferBacked /\ call.path = "Stream" /\ ReqCount = 1
    /\ Promotions = {Len(call.ops)}
    /\ OpsNamed("unmap") = {Len(call.ops) - 1}

----------------------------------------------------------------------------
(* The amount of static usage promoted. *)

\* The arguments of the promotions of static usage of the call.
PromotedAmounts == {call.ops[i][3] : i \in Promotions}

\* C21, as claimed: a buffer-backed draw that is streamed promotes the
\* static usage of its buffer by the count of the draw, whatever the source
\* type.
C21_Claimed ==
    (Succeeded /\ BufferBacked /\ call.path = "Stream") =>
        PromotedAmounts = {ReqCount}

\* C21, amended: a buffer-backed draw that is streamed promotes the static
\* usage of its buffer by count << bytesShift of the source type, the size
\* of the draw's indices in bytes: count for 8-bit, 2 * count for 16-bit
\* and 4 * count for 32-bit sources.
C21_PromotedBytes ==
    (Succeeded /\ BufferBacked /\ call.path = "Stream") =>
        /\ PromotedAmounts = {ReqCount * TypeBytes(ReqSrcType)}
        /\ ReqSrcType = GL_UNSIGNED_BYTE => PromotedAmounts = {ReqCount}
        /\ ReqSrcType = GL_UNSIGNED_SHORT => PromotedAmounts = {2 * ReqCount}
        /\ ReqSrcType = GL_UNSIGNED_INT => PromotedAmounts = {4 * ReqCount}

\* A streamed draw of one 32-bit index from a buffer promoted 4.
C21_Witness ==
    /\ Succeeded /\ BufferBacked /\ call.path = "Stream"
    /\ ReqSrcType = GL_UNSIGNED_INT /\ ReqCount = 1
    /\ PromotedAmounts = {4}

----------------------------------------------------------------------------
(* When the static index buffer is invalidated. *)

\* The call invalidated the static data of its buffer.
Invalidated == OpsNamed("invalidateStaticData") # {}

\* The static index buffer the call found is initialized and is of another
\* type than the destination type, or the offset is not aligned.
CacheUnusable ==
    CacheInitialized /\ (CacheBefore.indexType # translated.indexType \/ ~ReqAligned)

\* C22, as claimed: a call invalidates the static index buffer of its buffer
\* exactly when it is initialized and its type is not the destination type
\* or the offset is not aligned.
C22_Claimed ==
    BufferBacked => (Invalidated <=> CacheUnusable)

\* C22, amended: a call that does not bind its buffer directly invalidates
\* the static index buffer exactly when it is initialized and its type is
\* not the destination type or the offset is not aligned, once, before any
\* other operation, and then streams; an unaligned draw discards a static
\* index buffer of the destination type; an empty static index buffer is
\* never invalidated, and an initialized one that is not invalidated is
\* left as it was; a call that binds directly never looks at the static
\* index buffer, whatever its type.
C22_InvalidationRule ==
    BufferBacked =>
        /\ Invalidated <=> (~ReqDirect /\ CacheUnusable)
        /\ Invalidated =>
              /\ OpsNamed("invalidateStaticData") = {1}
              /\ CacheAfter = NoBuffer
              /\ call.path = "Stream"
        /\ (CacheInitialized /\ ~Invalidated) => CacheAfter = CacheBefore
        /\ CacheEmpty => (~Invalidated /\ CacheAfter # NoBuffer)
        /\ ReqDirect => (~Invalidated /\ CacheAfter = CacheBefore)

\* A draw at an offset that is not aligned discarded a static index buffer
\* of its destination type.
C22_Witness ==
    /\ BufferBacked /\ Invalidated /\ ~ReqAligned
    /\ CacheInitialized /\ CacheBefore.indexType = translated.indexType
    /\ CacheAfter = NoBuffer
    /\ ReqCount = 1

----------------------------------------------------------------------------
(* Where a descriptor starts. *)

\* C23: in every descriptor a call returns, on any path and after any calls
\* before it, startOffset = startIndex * size of a destination element,
\* and the destination type is 16-bit or 32-bit; the write position of a
\* streaming buffer, from which the regions of streamed draws are taken, is
\* always a multiple of the element size of its type.
C23_StartOffsetOfStartIndex ==
    /\ Succeeded =>
          /\ translated.indexType \in {GL_UNSIGNED_SHORT, GL_UNSIGNED_INT}
          /\ translated.startOffset =
                translated.startIndex * TypeBytes(translated.indexType)
    /\ \A slot \in DOMAIN SlotOf :
          Manager[slot] # NoBuffer =>
              Manager[slot].writePosition % TypeBytes(SlotOf[slot]) = 0

\* An 8-bit index was streamed into a region that starts at the second
\* 16-bit element of the streaming buffer.
C23_Witness ==
    /\ Succeeded /\ call.path = "Stream"
    /\ ReqSrcType = GL_UNSIGNED_BYTE /\ translated.indexType = GL_UNSIGNED_SHORT
    /\ translated.startIndex = 1 /\ translated.startOffset = 2

----------------------------------------------------------------------------
(* The query and the call. *)

\* What IsStreamingIndexData answers in the state a call is made in, for the
\* source type, the buffer and the restart flag of the call.
QueriedBeforeStep ==
    IsStreamingIndexData(translated'.srcIndexData.srcIndexType, mRendererClass,
                         call'.primitiveRestartFixedIndexEnabled,
                         translated'.srcIndexData.srcBuffer, buffers)

\* C24, as claimed: IsStreamingIndexData, asked in the state a call of
\* prepareIndexData is made in, with the source type, buffer and restart
\* flag of the call, answers true exactly when the call takes the streaming
\* path.
C24_QueryAgrees ==
    [][PrepareStep => (QueriedBeforeStep <=> call'.path = "Stream")]_vars

----------------------------------------------------------------------------
(* A streaming buffer whose first reserve fails. *)

\* The field of the manager for the destination type of the call.
ReqSlot == StreamingSlot(translated.indexType)

\* The call made a streaming buffer and its first reserve failed.
CreationFailed ==
    /\ Prepared /\ call.fault = "create"
    /\ OpsNamed("new") # {}

\* C25: when the first reserve of a streaming buffer made by a call fails,
\* the call returns that error and its last operation is that reserve, the
\* field of the manager for the destination type of the call is still empty
\* and the other field is as it was before the call; and every call that
\* goes on to stream while the field for its destination type is empty makes
\* a streaming buffer, so the call after a failed one tries again.
C25_FailedCreation ==
    /\ [](CreationFailed =>
            /\ call.error = FaultError
            /\ call.ops[Len(call.ops)] = <<"streaming", "reserve", INITIAL_INDEX_BUFFER_SIZE>>
            /\ Manager[ReqSlot] = NoBuffer)
    /\ [][(PrepareStep /\ CreationFailed') => Manager' = Manager]_vars
    /\ [][(PrepareStep /\ call'.path = "Stream" /\ call'.fault # "getData"
              /\ Manager[ReqSlot'] = NoBuffer)
            => CreatedInStep # {}]_vars

\* The streaming buffer for 32-bit indices could not be made while the one
\* for 16-bit indices exists and has been written to.
C25_Witness ==
    /\ CreationFailed /\ call.error # NoError
    /\ translated.indexType = GL_UNSIGNED_INT
    /\ mStreamingBufferInt = NoBuffer
    /\ mStreamingBufferShort # NoBuffer

----------------------------------------------------------------------------
(* A buffer whose data cannot be read. *)

\* The call asked its buffer for its data and getData failed.
ReadFailed ==
    /\ Prepared /\ BufferBacked /\ call.fault = "getData"
    /\ OpsNamed("getData") # {}

\* The buffers after a call that changed nothing but, if it invalidated,
\* the static data of its buffer.
BuffersAfterReadFailed ==
    [b \in DOMAIN buffers |->
        IF b = ReqBuffer' /\ Invalidated' THEN InvalidateStaticData(buffers[b])
        ELSE buffers[b]]

\* C26: a call whose getData fails returns that error with getData as its
\* last operation; it did nothing on a streaming buffer (no reserve, no
\* map), nothing on the static index buffer (no write) and promoted no
\* static usage; the only other operation it can have made is the
\* invalidation of an initialized static index buffer that is not usable,
\* made before getData; the streaming buffers of the manager and the buffers
\* are as before the call but for that invalidation.
C26_ReadFailure ==
    /\ [](ReadFailed =>
            /\ call.error = "GetDataFailed"
            /\ OpsNamed("getData") = {Len(call.ops)}
            /\ OpsOn("streaming") = {} /\ OpsOn("static") = {}
            /\ Promotions = {}
            /\ OpsNamed("invalidateStaticData") = 1..(Len(call.ops) - 1)
            /\ Invalidated => (Len(call.ops) = 2 /\ CacheUnusable)
            /\ CacheAfter = (IF Invalidated THEN NoBuffer ELSE CacheBefore))
    /\ [][(PrepareStep /\ ReadFailed') =>
              /\ Manager' = Manager
              /\ buffers' = BuffersAfterReadFailed]_vars

\* getData failed after the call discarded an initialized static index
\* buffer of another type.
C26_Witness ==
    /\ ReadFailed /\ Invalidated
    /\ CacheInitialized /\ CacheBefore.indexType # translated.indexType
    /\ CacheAfter = NoBuffer

====
